---- MODULE Spec2Model ----
(***************************************************************************)
(* Calendar mailbox service: the sync gateway (CalenderSyncController),    *)
(* the two provider adapters (GoogleCalendarService, MicrosoftService),    *)
(* the local event mirror (calendarEventModel) and the meeting logger.     *)
(* Every handler is one action; what the collaborators answer (provider    *)
(* transport, database, activity logger, task creator) is an input of the  *)
(* action, drawn from a small set.                                         *)
(*                                                                         *)
(* Of a CalendarEvent document the model carries provider, leadId,         *)
(* startTime, endTime, isOnlineMeeting and isActive: a field the request   *)
(* sets as it is, the two times, a field copied from the provider's answer *)
(* and the soft-delete flag.  Of a LoggedMeeting document it carries       *)
(* meetingType, virtualMeetingProvider, leadId, loggedBy, organizationId,  *)
(* activityId, taskId and isActive.  A provider that answers a call with   *)
(* success answers with the values it was sent.  The feed (getLocalEvents) *)
(* reads further fields: userId, organizer and organizerName of an event,  *)
(* meetingDateTime of a meeting.  The stores the feed specification starts *)
(* from vary them; a created event is organized by user1, who has no       *)
(* display name, and a meeting is logged for the instant 0.                *)
(***************************************************************************)
EXTENDS Integers, Sequences, FiniteSets, TLC

\* ------------------------------------------------------------------ bounds
\* Timestamps are instants 0..MaxTime, in seconds.
MaxTime == 1
\* The provider assigns at most MaxEvents event ids.
MaxEvents == 1
\* At most MaxMeetings meetings are logged.
MaxMeetings == 2
\* The feed is built over FeedEvents mirrored events and FeedMeetings logged
\* meetings.
FeedEvents == 2
FeedMeetings == 1
\* A people answer of Google holds at most MaxContacts people, each of the
\* two answers of Microsoft at most MaxPeople, and each of them has at most
\* MaxAddresses email addresses.
MaxContacts == 2
\* A list answer holds at most MaxItems events.
MaxItems == 2
\* The time validations are applied to requests that start at 1..MaxStart,
\* under a clock of 0..MaxStart + 1.
MaxStart == 3
MaxPeople == 1
MaxAddresses == 2

\* ------------------------------------------------------------ value domains
\* An optional string that is undefined or empty: both are falsy in the code.
None == "none"
\* An optional timestamp string that is undefined or empty.
NoTime == -1
Times == 0 .. MaxTime
\* Provider-assigned event ids and database-assigned meeting ids (ObjectIds)
\* are strings of different shapes: <<"evt", n>> and <<"mtg", n>>.
EventId(n) == <<"evt", n>>
MeetingId(n) == <<"mtg", n>>
EventIds == {EventId(n) : n \in 1 .. MaxEvents}
MeetingIds == {MeetingId(n) : n \in 1 .. MaxMeetings}
\* An id no provider ever assigned and no record carries.
UnknownId == EventId(0)

GOOGLE == "google"
MICROSOFT == "microsoft"
CalendarProvider == {GOOGLE, MICROSOFT}

\* A header value is a sequence of pieces; the empty sequence is the absent
\* (or empty) header.  "Bearer " is the piece String.replace looks for.
BearerPrefix == "Bearer "
\* The (authorization, x-calendar-provider) header pairs of the requests.
HeaderPairs ==
    {<< <<>>, "" >>, << <<>>, "google" >>, << <<BearerPrefix, "tok">>, "" >>,
     << <<BearerPrefix, "tok">>, "google" >>, << <<BearerPrefix, "tok">>, "Microsoft" >>,
     << <<BearerPrefix, "tok">>, "yahoo" >>, << <<BearerPrefix>>, "google" >>}
\* A header pair whose token is blank: it passes validateHeaders, and only
\* deleteEvent tells it from a usable token.
BlankTokenPairs == {<< <<BearerPrefix, " ">>, "google" >>}

\* What one provider HTTP call can end in.
TransportResults == {"ok", "auth", "network"}

\* JavaScript truthiness of an optional string.
Truthy(s) == s # None /\ s # ""

\* String.prototype.toLowerCase on the provider header values and the email
\* addresses in use.
ToLowerCase(s) ==
    CASE s = "Microsoft" -> "microsoft"
      [] s = "GOOGLE" -> "google"
      [] s = "Ann@x.io" -> "ann@x.io"
      [] OTHER -> s

\* String.prototype.replace(piece, ''): drops the first occurrence of piece.
RECURSIVE ReplaceFirst(_, _)
ReplaceFirst(s, piece) ==
    IF s = <<>> THEN <<>>
    ELSE IF Head(s) = piece THEN Tail(s)
    ELSE <<Head(s)>> \o ReplaceFirst(Tail(s), piece)

\* String.prototype.trim on a header value: whitespace pieces at both ends go.
RECURSIVE TrimLeft(_)
TrimLeft(s) == IF s # <<>> /\ Head(s) = " " THEN TrimLeft(Tail(s)) ELSE s
RECURSIVE TrimRight(_)
TrimRight(s) ==
    IF s # <<>> /\ s[Len(s)] = " " THEN TrimRight(SubSeq(s, 1, Len(s) - 1)) ELSE s
Trim(s) == TrimRight(TrimLeft(s))

\* `accessToken && accessToken.trim() !== ''` of both deleteEvent methods.
UsableToken(accessToken) == accessToken # <<>> /\ Trim(accessToken) # <<>>

\* ------------------------------------------------------- what a caller sees
\* The request fields the model carries (CreateEventDto / UpdateEventDto).
NoRequest ==
    [startTime |-> NoTime, endTime |-> NoTime, leadId |-> None]

\* The log-meeting request fields the model carries (LogMeetingDto) and the
\* x-organization-id header that comes with them.
NoMeeting ==
    [meetingType |-> None, virtualMeetingProvider |-> None, leadId |-> None,
     createFollowUpTask |-> FALSE, followUpTask |-> None, organizationId |-> None]

\* The observation of a handled request before anything is known about it.
\* op, adapter, id: the handler, the adapter it dispatched to ("local" for the
\* header-less branch) and the event or meeting id; headers: which of the
\* authorization and provider headers the request carried, and their
\* values; outcome: "ok" or
\* the exception raised; transportCalls, activityCalls, saveCalls, taskCalls:
\* the provider HTTP calls, logActivity calls, LoggedMeeting save() calls and
\* createTask calls made; failed: the collaborator calls that threw
\* ("provider", "db", "read", "activity", "task", "save", "patch");
\* endAfterStart: a create request's end is strictly after its start; req:
\* the request of a successful update; existing: the provider event's start
\* and end fetched by that update; payloadEnd: the end time it sent to the
\* provider; meeting: the log-meeting request; answers: what logActivity and
\* createTask ended in (NotCalled, Failed, None or the new id); response: the
\* activityId and taskId of the LogMeetingResponseDto; query: the provider,
\* userId and leadId query parameters and the x-calendar-provider header of a
\* feed request; profile: what its profile lookup ended in; data: the feed
\* it returned, or the contacts a contacts request returned; accessToken:
\* the token the adapter was called with; providerError: how the provider
\* call ended whose failure ended the operation; people: the contacts of the
\* provider's answers that a contacts request went through, in the order it
\* went through them; duration: end minus start of a create request, in
\* seconds; items: the events of the provider's answer to a list request
\* (whose data are the events returned); validation: the clock and whether
\* the request passes the validateTimeLogic of each adapter.
NoObservation ==
    [op |-> "none", adapter |-> "none", id |-> UnknownId,
     headers |-> [auth |-> FALSE, provider |-> FALSE, authorization |-> <<>>,
                  calendarProvider |-> None],
     req |-> NoRequest,
     outcome |-> "none", transportCalls |-> 0, activityCalls |-> 0,
     saveCalls |-> 0, taskCalls |-> 0, failed |-> {}, endAfterStart |-> FALSE,
     existing |-> <<NoTime, NoTime>>, payloadEnd |-> NoTime, meeting |-> NoMeeting,
     answers |-> [activity |-> "notCalled", task |-> "notCalled"],
     response |-> [activityId |-> None, taskId |-> None],
     query |-> [provider |-> None, userId |-> None, leadId |-> None,
                calendarProvider |-> None],
     profile |-> "notCalled", data |-> <<>>, accessToken |-> <<>>,
     providerError |-> None, people |-> <<>>, duration |-> 0, items |-> <<>>,
     validation |-> [now |-> 0, google |-> TRUE, microsoft |-> TRUE]]


\* ------------------------------------------------------- header validation
IsKnownProvider(p) == p \in CalendarProvider

\* validateHeaders handing on the authorization value as the token, prefix
\* and all.
validateHeadersKeepingPrefix(authHeader, provider) ==
    IF authHeader = <<>> THEN [err |-> "Unauthorized", accessToken |-> <<>>, provider |-> None]
    ELSE IF ~Truthy(provider) THEN [err |-> "BadRequest", accessToken |-> <<>>, provider |-> None]
    ELSE IF ~IsKnownProvider(ToLowerCase(provider))
        THEN [err |-> "BadRequest", accessToken |-> <<>>, provider |-> None]
    ELSE IF ReplaceFirst(authHeader, BearerPrefix) = <<>>
        THEN [err |-> "Unauthorized", accessToken |-> <<>>, provider |-> None]
    ELSE [err |-> None, accessToken |-> authHeader, provider |-> ToLowerCase(provider)]

\* CalenderSyncController.validateHeaders: the error it throws, or the token
\* and the normalized provider.
validateHeaders(authHeader, provider) ==
    IF authHeader = <<>> THEN [err |-> "Unauthorized", accessToken |-> <<>>, provider |-> None]
    ELSE IF ~Truthy(provider) THEN [err |-> "BadRequest", accessToken |-> <<>>, provider |-> None]
    ELSE IF ~IsKnownProvider(ToLowerCase(provider))
        THEN [err |-> "BadRequest", accessToken |-> <<>>, provider |-> None]
    ELSE IF ReplaceFirst(authHeader, BearerPrefix) = <<>>
        THEN [err |-> "Unauthorized", accessToken |-> <<>>, provider |-> None]
    ELSE [err |-> None, accessToken |-> ReplaceFirst(authHeader, BearerPrefix),
          provider |-> ToLowerCase(provider)]

\* --------------------------------------------------------- time validation
\* 24 * 60, the longest event in minutes.
MaxDurationMinutes == 1440

\* date-fns differenceInMinutes(end, start) for end >= start: whole minutes.
differenceInMinutes(end, start) == (end - start) \div 60

\* GoogleCalendarService.validateTimeLogic: TRUE when it does not throw.
GoogleValidateTimeLogic(startTime, endTime) ==
    /\ ~(startTime >= endTime)
    /\ ~(differenceInMinutes(endTime, startTime) > MaxDurationMinutes)

\* MicrosoftService.validateTimeLogic: TRUE when it does not throw.
MicrosoftValidateTimeLogic(startTime, endTime, now) ==
    /\ ~(startTime < now)
    /\ ~(endTime <= startTime)
    /\ ~(differenceInMinutes(endTime, startTime) > MaxDurationMinutes)

\* ------------------------------------------------- provider error classes
\* makeGoogleApiCall: the exception a failed call is turned into.
GoogleClassify(t) == IF t = "auth" THEN "Unauthorized" ELSE "BadRequest"

\* ------------------------------------------------------------------- state
VARIABLES
    calendarEvents,   \* the local mirror: externalId -> CalendarEvent document
    assigned,         \* the ids the providers and the database have assigned so far
    loggedMeetings,   \* _id -> LoggedMeeting document
    everSaved,        \* history: ids of the CalendarEvent documents ever saved
    last,             \* the last request handled and what the caller observed
    running,          \* the requests in flight: name -> position and local data
    held              \* history: the states the record of the requests in flight
                      \* has been in, before and after each complete update

vars == <<calendarEvents, assigned, loggedMeetings, everSaved, last, running, held>>

\* ------------------------------------------------------- the event mirror
\* The update document of an optional field: empty when the field is skipped.
NoUpdate == [f \in {} |-> None]
Set(cond, field, value) == IF cond THEN field :> value ELSE NoUpdate

\* Model.save(): the document is stored under its externalId.
SaveEvent(events, id, doc) ==
    [x \in DOMAIN events \cup {id} |-> IF x = id THEN doc ELSE events[x]]

\* findOneAndUpdate as the save() of the document loaded when the requests
\* in flight arrived, with the fields of `update` set on it.
findOneAndUpdateLoadedDocument(events, id, update) ==
    [x \in DOMAIN events |->
        IF x = id /\ held # <<>>
        THEN [f \in DOMAIN held[1] |->
                 IF f \in DOMAIN update THEN update[f] ELSE held[1][f]]
        ELSE events[x]]

\* Model.findOneAndUpdate({externalId: id}, update): the fields of `update`
\* are set on the matching document; no document, no change.
findOneAndUpdate(events, id, update) ==
    [x \in DOMAIN events |->
        IF x = id
        THEN [f \in DOMAIN events[x] |->
                 IF f \in DOMAIN update THEN update[f] ELSE events[x][f]]
        ELSE events[x]]

\* Model.deleteOne({externalId: id}): the matching document is removed.
deleteOne(events, id) == [x \in DOMAIN events \ {id} |-> events[x]]

\* What a handler hands back to the model: the observation, the mirror and
\* the logged meetings after it, and the provider ids in use after it.
ResultM(obs, events, ids, meetings) ==
    [obs |-> obs, events |-> events, assigned |-> ids, meetings |-> meetings]
Result(obs, events, ids) == ResultM(obs, events, ids, loggedMeetings)

\* The id the provider gives the next event it creates.
FreshId(ids) == EventId(Cardinality(ids \cap EventIds) + 1)

\* The _id the database gives the next LoggedMeeting it stores.
FreshMeetingId(ids) == MeetingId(Cardinality(ids \cap MeetingIds) + 1)

\* ------------------------------------------ GoogleCalendarService.createEvent
\* post: how the POST to the provider ends; conferenceData: the provider's
\* answer carries conference data; saveOk: whether the mirror save succeeds;
\* actOk: whether logActivity succeeds.
GoogleCreateEvent(accessToken, eventData, post, conferenceData, saveOk, actOk) ==
    LET obs == [NoObservation EXCEPT !.op = "create", !.adapter = GOOGLE, !.accessToken = accessToken,
                    !.endAfterStart = eventData.endTime > eventData.startTime,
                    !.duration = eventData.endTime - eventData.startTime]
        id == FreshId(assigned)
        doc == [provider |-> GOOGLE,
                leadId |-> eventData.leadId,
                startTime |-> eventData.startTime,
                endTime |-> eventData.endTime,
                isOnlineMeeting |-> conferenceData,
                isActive |-> TRUE,
                userId |-> "user1", organizer |-> "user1", organizerName |-> None]
        logs == Truthy(eventData.leadId)
    IN  IF accessToken = <<>>
        THEN Result([obs EXCEPT !.outcome = "Unauthorized"], calendarEvents, assigned)
        ELSE IF ~GoogleValidateTimeLogic(eventData.startTime, eventData.endTime)
        THEN Result([obs EXCEPT !.outcome = "BadRequest"], calendarEvents, assigned)
        ELSE IF post # "ok"
        THEN Result([obs EXCEPT !.outcome = GoogleClassify(post), !.transportCalls = 1,
                                !.failed = {"provider"}, !.providerError = post],
                    calendarEvents, assigned)
        ELSE IF ~saveOk
        THEN Result([obs EXCEPT !.outcome = "BadRequest", !.id = id, !.transportCalls = 2,
                                !.failed = {"db"}],
                    calendarEvents, assigned \cup {id})
        ELSE Result([obs EXCEPT !.outcome = "ok", !.id = id,
                                !.transportCalls = IF logs THEN 3 ELSE 2,
                                !.activityCalls = IF logs THEN 1 ELSE 0,
                                !.failed = IF logs /\ ~actOk THEN {"activity"} ELSE {}],
                    SaveEvent(calendarEvents, id, doc), assigned \cup {id})

\* --------------------------------------------- MicrosoftService.createEvent
\* access: how the calendar-access probe ends; now: the clock read by
\* validateTimeLogic; isOnlineMeeting: the flag in the provider's answer;
\* the rest as for the Google adapter.
MicrosoftCreateEvent(accessToken, eventData, access, now, post, isOnlineMeeting, saveOk, actOk) ==
    LET obs == [NoObservation EXCEPT !.op = "create", !.adapter = MICROSOFT, !.accessToken = accessToken,
                    !.endAfterStart = eventData.endTime > eventData.startTime,
                    !.duration = eventData.endTime - eventData.startTime]
        id == FreshId(assigned)
        doc == [provider |-> MICROSOFT,
                leadId |-> eventData.leadId,
                startTime |-> eventData.startTime,
                endTime |-> eventData.endTime,
                isOnlineMeeting |-> isOnlineMeeting,
                isActive |-> TRUE,
                userId |-> "user1", organizer |-> "user1", organizerName |-> None]
        logs == Truthy(eventData.leadId)
    IN  \* Every exception of the method is rethrown as a BadRequestException.
        IF access # "ok"
        THEN Result([obs EXCEPT !.outcome = "BadRequest", !.transportCalls = 1,
                                !.failed = {"provider"}, !.providerError = access],
                    calendarEvents, assigned)
        ELSE IF ~MicrosoftValidateTimeLogic(eventData.startTime, eventData.endTime, now)
        THEN Result([obs EXCEPT !.outcome = "BadRequest", !.transportCalls = 1],
                    calendarEvents, assigned)
        ELSE IF post # "ok"
        THEN Result([obs EXCEPT !.outcome = "BadRequest", !.transportCalls = 2,
                                !.failed = {"provider"}, !.providerError = post],
                    calendarEvents, assigned)
        ELSE IF ~saveOk
        THEN Result([obs EXCEPT !.outcome = "BadRequest", !.id = id, !.transportCalls = 2,
                                !.failed = {"db"}],
                    calendarEvents, assigned \cup {id})
        ELSE Result([obs EXCEPT !.outcome = "ok", !.id = id, !.transportCalls = 2,
                                !.activityCalls = IF logs THEN 1 ELSE 0,
                                !.failed = IF logs /\ ~actOk THEN {"activity"} ELSE {}],
                    SaveEvent(calendarEvents, id, doc), assigned \cup {id})

\* The updateData both adapters build from the request fields that are set.
RequestedFields(eventData) ==
    Set(eventData.startTime # NoTime, "startTime", eventData.startTime)
    @@ Set(eventData.endTime # NoTime, "endTime", eventData.endTime)
    @@ Set(Truthy(eventData.leadId), "leadId", eventData.leadId)

\* The updateData GoogleCalendarService.updateEvent writes to the mirror.
GoogleUpdateData(eventData, conferenceData) ==
    RequestedFields(eventData) @@ Set(conferenceData, "isOnlineMeeting", TRUE)

\* The updateData MicrosoftService.updateEvent writes to the mirror.
MicrosoftUpdateData(eventData, isOnlineMeeting) ==
    RequestedFields(eventData) @@ ("isOnlineMeeting" :> isOnlineMeeting)

\* A request that sets the start time and no end time.
StartOnly(eventData) == eventData.startTime # NoTime /\ eventData.endTime = NoTime

\* PayloadEnd with the old start left out of the duration: the new end is
\* placed at newStart + existingEnd.
PayloadEndFromExistingEnd(eventData, existing) ==
    IF StartOnly(eventData)
    THEN eventData.startTime + existing[2]
    ELSE eventData.endTime

\* The end time of the provider update payload: computed from the existing
\* duration for a start-only update, the request's otherwise.
PayloadEnd(eventData, existing) ==
    IF StartOnly(eventData)
    THEN eventData.startTime + (existing[2] - existing[1])
    ELSE eventData.endTime

\* ------------------------------------------ GoogleCalendarService.updateEvent
\* get, patch: how the two provider calls end; existing: start and end of
\* the provider event fetched first; orgName: the organizer display name in
\* the PATCH answer (without one the profile is looked up); conferenceData:
\* the answer carries conference data; dbOk, actOk: mirror write and
\* logActivity succeed.
GoogleUpdateEvent(accessToken, eventId, eventData, get, existing, patch, orgName, conferenceData, dbOk, actOk) ==
    LET obs == [NoObservation EXCEPT !.op = "update", !.adapter = GOOGLE, !.id = eventId,
                    !.accessToken = accessToken]
        both == eventData.startTime # NoTime /\ eventData.endTime # NoTime
        lookup == ~Truthy(orgName)
        updateData == GoogleUpdateData(eventData, conferenceData)
        calls == IF lookup THEN 3 ELSE 2
    IN  \* Every exception of the method is rethrown as a BadRequestException.
        IF get # "ok"
        THEN Result([obs EXCEPT !.outcome = "BadRequest", !.transportCalls = 1,
                                !.failed = {"provider"}, !.providerError = get],
                    calendarEvents, assigned)
        ELSE IF both /\ ~GoogleValidateTimeLogic(eventData.startTime, eventData.endTime)
        THEN Result([obs EXCEPT !.outcome = "BadRequest", !.transportCalls = 1],
                    calendarEvents, assigned)
        ELSE IF patch # "ok"
        THEN Result([obs EXCEPT !.outcome = "BadRequest", !.transportCalls = 2,
                                !.failed = {"provider"}, !.providerError = patch],
                    calendarEvents, assigned)
        ELSE IF ~dbOk
        THEN Result([obs EXCEPT !.outcome = "BadRequest", !.transportCalls = calls,
                                !.failed = {"db"}],
                    calendarEvents, assigned)
        ELSE Result([obs EXCEPT !.outcome = "ok", !.req = eventData,
                                !.transportCalls = calls,
                                !.activityCalls = 1,
                                !.failed = IF actOk THEN {} ELSE {"activity"},
                                !.existing = existing,
                                !.payloadEnd = PayloadEnd(eventData, existing)],
                    findOneAndUpdate(calendarEvents, eventId, updateData), assigned)

\* --------------------------------------------- MicrosoftService.updateEvent
\* access, get, patch: how the three provider calls end; isOnlineMeeting:
\* the flag in the PATCH answer; readOk: the mirror lookup of the lead id
\* succeeds.
MicrosoftUpdateEvent(accessToken, eventId, eventData, access, get, existing, now, patch, isOnlineMeeting, dbOk, readOk, actOk) ==
    LET obs == [NoObservation EXCEPT !.op = "update", !.adapter = MICROSOFT, !.id = eventId,
                    !.accessToken = accessToken]
        both == eventData.startTime # NoTime /\ eventData.endTime # NoTime
        updateData == MicrosoftUpdateData(eventData, isOnlineMeeting)
        written == findOneAndUpdate(calendarEvents, eventId, updateData)
        leadId ==
            IF Truthy(eventData.leadId) THEN eventData.leadId
            ELSE IF eventId \in DOMAIN written THEN written[eventId].leadId
            ELSE None
        needsRead == ~Truthy(eventData.leadId)
    IN  \* validateCalendarAccess runs outside the try block.
        IF access # "ok"
        THEN Result([obs EXCEPT !.outcome = "Unauthorized", !.transportCalls = 1,
                                !.failed = {"provider"}, !.providerError = access],
                    calendarEvents, assigned)
        ELSE IF get # "ok"
        THEN Result([obs EXCEPT !.outcome = "BadRequest", !.transportCalls = 2,
                                !.failed = {"provider"}, !.providerError = get],
                    calendarEvents, assigned)
        ELSE IF both /\ ~MicrosoftValidateTimeLogic(eventData.startTime,
                                                    eventData.endTime, now)
        THEN Result([obs EXCEPT !.outcome = "BadRequest", !.transportCalls = 2],
                    calendarEvents, assigned)
        ELSE IF patch # "ok"
        THEN Result([obs EXCEPT !.outcome = "BadRequest", !.transportCalls = 3,
                                !.failed = {"provider"}, !.providerError = patch],
                    calendarEvents, assigned)
        ELSE IF ~dbOk
        THEN Result([obs EXCEPT !.outcome = "BadRequest", !.transportCalls = 3,
                                !.failed = {"db"}],
                    calendarEvents, assigned)
        ELSE IF needsRead /\ ~readOk
        THEN Result([obs EXCEPT !.outcome = "BadRequest", !.transportCalls = 3,
                                !.failed = {"read"}],
                    written, assigned)
        ELSE IF Truthy(leadId) /\ ~actOk
        THEN \* logActivity is awaited inside the method's try block.
             Result([obs EXCEPT !.outcome = "BadRequest", !.transportCalls = 3,
                                !.activityCalls = 1, !.failed = {"activity"}],
                    written, assigned)
        ELSE Result([obs EXCEPT !.outcome = "ok", !.req = eventData,
                                !.transportCalls = 3,
                                !.activityCalls = IF Truthy(leadId) THEN 1 ELSE 0,
                                !.existing = existing,
                                !.payloadEnd = PayloadEnd(eventData, existing)],
                    written, assigned)

\* ---------------------------------------------------- deleteEvent, adapters
\* ProviderDeleteError with the catch block rethrowing what it caught.
ProviderDeleteErrorRethrown(accessToken, del) ==
    IF UsableToken(accessToken) /\ del # "ok" THEN "BadRequest" ELSE None

\* The guarded provider DELETE of both deleteEvent methods: the exception
\* that escapes it.  The catch block logs every failure and goes on.
ProviderDeleteError(accessToken, del) == None

\* The part both deleteEvent methods share: del: how the provider DELETE
\* ends; dbOk: the soft-delete write succeeds; readOk: the lookup for the
\* activity log succeeds; actOk: logActivity succeeds.
SoftDelete(adapter, accessToken, eventId, del, dbOk, readOk, actOk) ==
    LET providerFailed == IF UsableToken(accessToken) /\ del # "ok" THEN {"provider"} ELSE {}
        obs == [NoObservation EXCEPT !.op = "delete", !.adapter = adapter, !.id = eventId, !.accessToken = accessToken,
                    !.transportCalls = IF UsableToken(accessToken) THEN 1 ELSE 0,
                    !.failed = providerFailed]
        written == findOneAndUpdate(calendarEvents, eventId, "isActive" :> FALSE)
        logs == /\ readOk
                /\ eventId \in DOMAIN written
                /\ Truthy(written[eventId].leadId)
    IN  IF ProviderDeleteError(accessToken, del) # None
        THEN Result([obs EXCEPT !.outcome = ProviderDeleteError(accessToken, del)],
                    calendarEvents, assigned)
        ELSE IF ~dbOk
        THEN Result([obs EXCEPT !.outcome = "BadRequest",
                                !.failed = providerFailed \cup {"db"}],
                    calendarEvents, assigned)
        ELSE Result([obs EXCEPT !.outcome = "ok",
                                !.activityCalls = IF logs THEN 1 ELSE 0,
                                !.failed = providerFailed
                                           \cup (IF readOk THEN {} ELSE {"read"})
                                           \cup (IF logs /\ ~actOk THEN {"activity"} ELSE {})],
                    written, assigned)

\* GoogleCalendarService.deleteEvent
GoogleDeleteEvent(accessToken, eventId, del, dbOk, readOk, actOk) ==
    SoftDelete(GOOGLE, accessToken, eventId, del, dbOk, readOk, actOk)

\* MicrosoftService.deleteEvent
MicrosoftDeleteEvent(accessToken, eventId, del, dbOk, readOk, actOk) ==
    SoftDelete(MICROSOFT, accessToken, eventId, del, dbOk, readOk, actOk)

\* ------------------------------------------------- getEvents, adapters
\* The mapping of an event of Google's answer: the organizer's address and
\* `event.organizer?.name || event.organizer?.displayName || ''`.
GoogleMapEvent(event) ==
    [id |-> event.id,
     organizer |-> IF Truthy(event.organizer.email) THEN event.organizer.email ELSE "",
     organizerName |-> IF Truthy(event.organizer.name) THEN event.organizer.name ELSE ""]

\* The mapping of an event of Microsoft's answer: it has no organizerName.
MicrosoftMapEvent(event) ==
    [id |-> event.id, organizer |-> event.organizer.email]

\* GoogleCalendarService.getEvents: list: how the events call ends;
\* hasItems: its answer carries an items array; items: that array;
\* profileOk: the profile lookup that follows succeeds.  The lookup never
\* fails the method.
GoogleGetEvents(accessToken, list, hasItems, profileOk, items) ==
    LET obs == [NoObservation EXCEPT !.op = "list", !.adapter = GOOGLE,
                    !.accessToken = accessToken]
    IN  IF list # "ok"
        THEN Result([obs EXCEPT !.outcome = GoogleClassify(list), !.transportCalls = 1,
                                !.failed = {"provider"}, !.providerError = list],
                    calendarEvents, assigned)
        ELSE IF ~hasItems
        THEN Result([obs EXCEPT !.outcome = "BadRequest", !.transportCalls = 1],
                    calendarEvents, assigned)
        ELSE Result([obs EXCEPT !.outcome = "ok", !.transportCalls = 2,
                                !.profile = IF profileOk THEN "ok" ELSE "fail",
                                !.items = items,
                                !.data = [i \in DOMAIN items |-> GoogleMapEvent(items[i])]],
                    calendarEvents, assigned)

\* MicrosoftService.getEvents: access, list: how the calendar-access probe
\* and the calendarView call end; value: the events of the answer.
MicrosoftGetEvents(accessToken, access, list, value) ==
    LET obs == [NoObservation EXCEPT !.op = "list", !.adapter = MICROSOFT,
                    !.accessToken = accessToken]
    IN  \* Every exception of the method is rethrown as a BadRequestException.
        IF access # "ok"
        THEN Result([obs EXCEPT !.outcome = "BadRequest", !.transportCalls = 1,
                                !.failed = {"provider"}, !.providerError = access],
                    calendarEvents, assigned)
        ELSE IF list # "ok"
        THEN Result([obs EXCEPT !.outcome = "BadRequest", !.transportCalls = 2,
                                !.failed = {"provider"}, !.providerError = list],
                    calendarEvents, assigned)
        ELSE Result([obs EXCEPT !.outcome = "ok", !.transportCalls = 2,
                                !.items = value,
                                !.data = [i \in DOMAIN value |-> MicrosoftMapEvent(value[i])]],
                    calendarEvents, assigned)

\* ----------------------------------------------- getContacts, adapters
\* Array.from(map.values()) of the Map that is filled by going through the
\* <<key, value>> entries in order and setting a key only when the map does
\* not have it: the values in the order their keys were first set.
RECURSIVE MapValues(_, _)
MapValues(entries, keys) ==
    IF entries = <<>> THEN <<>>
    ELSE IF Head(entries)[1] \in keys THEN MapValues(Tail(entries), keys)
    ELSE <<Head(entries)[2]>> \o MapValues(Tail(entries), keys \cup {Head(entries)[1]})

\* GoogleCalendarService.removeDuplicateContacts: one key per contact, its
\* email in lower case.
GoogleRemoveDuplicateContacts(contacts) ==
    MapValues([i \in DOMAIN contacts |-> <<ToLowerCase(contacts[i].email), contacts[i]>>],
              {})

\* GoogleCalendarService.processContacts: a person becomes a contact under
\* the first of its email addresses, a person without one is left out.
GoogleProcessContacts(contacts) ==
    LET HasEmail(contact) == contact.emailAddresses # <<>>
        withEmail == SelectSeq(contacts, HasEmail)
    IN  GoogleRemoveDuplicateContacts(
            [i \in DOMAIN withEmail |->
                [id |-> withEmail[i].id, email |-> withEmail[i].emailAddresses[1]]])

\* The <<key, contact>> pairs MicrosoftService.removeDuplicateContacts goes
\* through: for each contact in turn, each of its addresses in turn.
RECURSIVE AddressEntries(_)
AddressEntries(contacts) ==
    IF contacts = <<>> THEN <<>>
    ELSE [i \in DOMAIN Head(contacts).emailAddresses |->
             <<ToLowerCase(Head(contacts).emailAddresses[i]), Head(contacts)>>]
         \o AddressEntries(Tail(contacts))

\* MicrosoftService.removeDuplicateContacts: one key per email address of a
\* contact.
MicrosoftRemoveDuplicateContacts(contacts) == MapValues(AddressEntries(contacts), {})

\* GoogleCalendarService.getContacts: connections, other, groups: how the
\* connections, otherContacts and contactGroups calls end; found,
\* otherFound: the first two answers hold people; groupsWithMembers: the
\* contact groups with members, each searched with one call; people: the
\* people of the answer that the method processes (of the searches, on the
\* contact-groups path).  Only a failure of the connections call ends the
\* method.
GoogleGetContacts(accessToken, connections, found, other, otherFound, groups, groupsWithMembers, people) ==
    LET obs == [NoObservation EXCEPT !.op = "contacts", !.adapter = GOOGLE,
                    !.accessToken = accessToken]
        groupCalls == IF groups = "ok" THEN 1 + groupsWithMembers ELSE 1
        searched == groups = "ok" /\ groupsWithMembers > 0
        processed == [obs EXCEPT !.outcome = "ok", !.people = people,
                          !.data = GoogleProcessContacts(people)]
    IN  \* Every exception of the method is rethrown as a BadRequestException.
        IF connections # "ok"
        THEN Result([obs EXCEPT !.outcome = "BadRequest", !.transportCalls = 1,
                                !.failed = {"provider"}, !.providerError = connections],
                    calendarEvents, assigned)
        ELSE IF found
        THEN Result([processed EXCEPT !.transportCalls = 1], calendarEvents, assigned)
        ELSE IF other = "ok" /\ otherFound
        THEN Result([processed EXCEPT !.transportCalls = 2], calendarEvents, assigned)
        ELSE IF searched
        THEN Result([processed EXCEPT !.transportCalls = 2 + groupCalls],
                    calendarEvents, assigned)
        ELSE Result([obs EXCEPT !.outcome = "ok", !.transportCalls = 2 + groupCalls],
                    calendarEvents, assigned)

\* MicrosoftService.getContacts: access, contacts, people: how the
\* calendar-access probe, the contacts call and the people call end;
\* contactsValue, peopleValue: the contacts and the people of the two
\* answers.
MicrosoftGetContacts(accessToken, access, contacts, people, contactsValue, peopleValue) ==
    LET obs == [NoObservation EXCEPT !.op = "contacts", !.adapter = MICROSOFT,
                    !.accessToken = accessToken]
        allContacts == contactsValue \o peopleValue
    IN  \* Every exception of the method is rethrown as a BadRequestException.
        IF access # "ok"
        THEN Result([obs EXCEPT !.outcome = "BadRequest", !.transportCalls = 1,
                                !.failed = {"provider"}, !.providerError = access],
                    calendarEvents, assigned)
        ELSE IF contacts # "ok"
        THEN Result([obs EXCEPT !.outcome = "BadRequest", !.transportCalls = 2,
                                !.failed = {"provider"}, !.providerError = contacts],
                    calendarEvents, assigned)
        ELSE IF people # "ok"
        THEN Result([obs EXCEPT !.outcome = "BadRequest", !.transportCalls = 3,
                                !.failed = {"provider"}, !.providerError = people],
                    calendarEvents, assigned)
        ELSE Result([obs EXCEPT !.outcome = "ok", !.transportCalls = 3,
                                !.people = allContacts,
                                !.data = MicrosoftRemoveDuplicateContacts(allContacts)],
                    calendarEvents, assigned)

\* --------------------------- the header-less branch of the controller
\* The fields of an update body that the LoggedMeeting schema knows.  The
\* ValidationPipe strips nothing from a body, so a field that UpdateEventDto
\* does not declare (meetingType) reaches the update as it was sent.
MeetingFields(eventData) ==
    Set(Truthy(eventData.leadId), "leadId", eventData.leadId)
    @@ Set("meetingType" \in DOMAIN eventData /\ Truthy(eventData.meetingType),
           "meetingType", eventData.meetingType)
    @@ Set("isActive" \in DOMAIN eventData, "isActive", eventData.isActive)

\* The fields of an update body that the CalendarEvent schema knows: those
\* of UpdateEventDto and, as the body is written as it was sent, isActive.
CalendarFields(eventData) ==
    RequestedFields(eventData)
    @@ Set("isActive" \in DOMAIN eventData, "isActive", eventData.isActive)

\* CalenderSyncController.deleteEvent without a header: db1Ok, db2Ok: the
\* two deleteOne calls succeed.  An exception of theirs is not caught.
LocalDeleteEvent(eventId, db1Ok, db2Ok) ==
    LET obs == [NoObservation EXCEPT !.op = "delete", !.adapter = "local", !.id = eventId]
        deleted == eventId \in DOMAIN calendarEvents \/ eventId \in DOMAIN loggedMeetings
    IN  IF ~db1Ok
        THEN Result([obs EXCEPT !.outcome = "Error", !.failed = {"db"}],
                    calendarEvents, assigned)
        ELSE IF ~db2Ok
        THEN Result([obs EXCEPT !.outcome = "Error", !.failed = {"db"}],
                    deleteOne(calendarEvents, eventId), assigned)
        ELSE ResultM([obs EXCEPT !.outcome = IF deleted THEN "ok" ELSE "BadRequest"],
                     deleteOne(calendarEvents, eventId), assigned,
                     deleteOne(loggedMeetings, eventId))

\* CalenderSyncController.updateEvent without a header: the body is written
\* to both collections as it is.
LocalUpdateEvent(eventId, eventData, db1Ok, db2Ok, actOk) ==
    LET obs == [NoObservation EXCEPT !.op = "update", !.adapter = "local", !.id = eventId]
        updatedCalendar == eventId \in DOMAIN calendarEvents
        updatedLogged == eventId \in DOMAIN loggedMeetings
        events == findOneAndUpdate(calendarEvents, eventId, CalendarFields(eventData))
        meetings == findOneAndUpdate(loggedMeetings, eventId, MeetingFields(eventData))
    IN  IF ~db1Ok
        THEN Result([obs EXCEPT !.outcome = "Error", !.failed = {"db"}],
                    calendarEvents, assigned)
        ELSE IF ~db2Ok
        THEN Result([obs EXCEPT !.outcome = "Error", !.failed = {"db"}], events, assigned)
        ELSE IF updatedCalendar \/ updatedLogged
        THEN ResultM([obs EXCEPT !.outcome = "ok", !.req = eventData,
                                 !.activityCalls = IF updatedLogged THEN 1 ELSE 0,
                                 !.failed = IF updatedLogged /\ ~actOk
                                            THEN {"activity"} ELSE {}],
                     events, assigned, meetings)
        ELSE ResultM([obs EXCEPT !.outcome = "BadRequest"], events, assigned, meetings)

\* The handler's effect on the state, for a request with the given
\* authorization and provider headers.
Apply(r, authHeader, provider) ==
    /\ r.assigned \subseteq assigned \cup EventIds \cup MeetingIds
    /\ calendarEvents' = r.events
    /\ assigned' = r.assigned
    /\ everSaved' = everSaved \cup DOMAIN r.events
    /\ last' = [r.obs EXCEPT !.headers = [auth |-> authHeader # <<>>,
                                          provider |-> Truthy(provider),
                                          authorization |-> authHeader,
                                          calendarProvider |-> provider]]
    /\ loggedMeetings' = r.meetings
    /\ UNCHANGED <<running, held>>

\* A request rejected by validateHeaders.
Rejected(op, err) ==
    Result([NoObservation EXCEPT !.op = op, !.outcome = err], calendarEvents, assigned)

\* ----------------------------------------- input domains of the requests
CreateRequests ==
    [startTime : Times, endTime : Times, leadId : {None, "L1"}]
OrganizerNames == {None, "Organizer Name"}
Clock == {0, 1}

\* An input that the handler reads only when `read` holds is drawn from S
\* then, and fixed otherwise.
Input(read, S) == IF read THEN S ELSE {CHOOSE x \in S : TRUE}

\* ------------------------------------ CalenderSyncController.createEvent
\* The handler, for requests that carry a header pair of pairs and a body of
\* bodies.
CreateEventOf(pairs, bodies) ==
    \E hp \in pairs :
        LET authHeader == hp[1]
            provider == hp[2]
            h == validateHeaders(authHeader, provider)
        IN  \/ /\ h.err # None
               /\ Apply(Rejected("create", h.err), authHeader, provider)
            \/ /\ h.err = None
               /\ h.provider = GOOGLE
               /\ \E eventData \in bodies :
                  LET valid == GoogleValidateTimeLogic(eventData.startTime, eventData.endTime)
                  IN  \E post \in Input(valid, TransportResults) :
                      \E saveOk \in Input(valid /\ post = "ok", BOOLEAN) :
                      \E conferenceData \in Input(valid /\ post = "ok" /\ saveOk, BOOLEAN),
                         actOk \in Input(valid /\ post = "ok" /\ saveOk
                                          /\ Truthy(eventData.leadId), BOOLEAN) :
                         Apply(GoogleCreateEvent(h.accessToken, eventData, post,
                                                 conferenceData, saveOk, actOk), authHeader, provider)
            \/ /\ h.err = None
               /\ h.provider = MICROSOFT
               /\ \E eventData \in bodies, access \in TransportResults :
                  \E now \in Input(access = "ok", Clock) :
                  LET valid == /\ access = "ok"
                               /\ MicrosoftValidateTimeLogic(eventData.startTime,
                                                             eventData.endTime, now)
                  IN  \E post \in Input(valid, TransportResults) :
                      \E saveOk \in Input(valid /\ post = "ok", BOOLEAN) :
                      \E isOnlineMeeting \in Input(valid /\ post = "ok" /\ saveOk, BOOLEAN),
                         actOk \in Input(valid /\ post = "ok" /\ saveOk
                                          /\ Truthy(eventData.leadId), BOOLEAN) :
                         Apply(MicrosoftCreateEvent(h.accessToken, eventData, access, now,
                                                    post, isOnlineMeeting, saveOk, actOk), authHeader, provider)

createEvent == CreateEventOf(HeaderPairs, CreateRequests)

\* ------------------------------------ CalenderSyncController.deleteEvent
RequestIds == EventIds

\* The handler, for requests that name an id of ids and carry a header pair
\* of pairs.
DeleteEventOf(ids, pairs) ==
    \E eventId \in ids, hp \in pairs :
        LET authHeader == hp[1]
            provider == hp[2]
        IN
        IF authHeader = <<>> \/ ~Truthy(provider)
        THEN \E db1Ok \in BOOLEAN : \E db2Ok \in Input(db1Ok, BOOLEAN) :
                Apply(LocalDeleteEvent(eventId, db1Ok, db2Ok), authHeader, provider)
        ELSE LET h == validateHeaders(authHeader, provider)
             IN  \/ /\ h.err # None
                    /\ Apply(Rejected("delete", h.err), authHeader, provider)
                 \/ /\ h.err = None
                    /\ \E del \in Input(UsableToken(h.accessToken), TransportResults),
                          dbOk \in BOOLEAN :
                       \E readOk \in Input(dbOk, BOOLEAN) :
                       \E actOk \in Input(dbOk /\ readOk, BOOLEAN) :
                          \/ /\ h.provider = GOOGLE
                             /\ Apply(GoogleDeleteEvent(h.accessToken, eventId, del,
                                                        dbOk, readOk, actOk), authHeader, provider)
                          \/ /\ h.provider = MICROSOFT
                             /\ Apply(MicrosoftDeleteEvent(h.accessToken, eventId, del,
                                                           dbOk, readOk, actOk), authHeader, provider)

\* ------------------------------------ CalenderSyncController.updateEvent
UpdateRequests ==
    [startTime : {NoTime} \cup Times, endTime : {NoTime} \cup Times, leadId : {None, "L1"}]
\* Start and end of an event as the provider holds it.
ExistingTimes == {<<s, e>> \in (0 .. MaxTime + 1) \X (0 .. MaxTime + 1) : s < e}

deleteEvent == DeleteEventOf(RequestIds, HeaderPairs \cup BlankTokenPairs)

\* The handler, for requests that name an id of ids, carry a header pair of
\* pairs and a body of bodies.
UpdateEventOf(ids, pairs, bodies) ==
    \E eventId \in ids, hp \in pairs, eventData \in bodies :
        LET authHeader == hp[1]
            provider == hp[2]
            both == eventData.startTime # NoTime /\ eventData.endTime # NoTime
        IN
        IF authHeader = <<>> \/ ~Truthy(provider)
        THEN \E db1Ok \in BOOLEAN : \E db2Ok \in Input(db1Ok, BOOLEAN) :
             \E actOk \in Input(db1Ok /\ db2Ok /\ eventId \in DOMAIN loggedMeetings, BOOLEAN) :
                Apply(LocalUpdateEvent(eventId, eventData, db1Ok, db2Ok, actOk),
                      authHeader, provider)
        ELSE LET h == validateHeaders(authHeader, provider)
             IN  \/ /\ h.err # None
                    /\ Apply(Rejected("update", h.err), authHeader, provider)
                 \/ /\ h.err = None
                    /\ h.provider = GOOGLE
                    /\ \E get \in TransportResults :
                       \E existing \in Input(get = "ok" /\ StartOnly(eventData), ExistingTimes) :
                       LET valid == /\ get = "ok"
                                    /\ both => GoogleValidateTimeLogic(eventData.startTime,
                                                                       eventData.endTime)
                       IN  \E patch \in Input(valid, TransportResults) :
                           \E orgName \in Input(valid /\ patch = "ok", OrganizerNames),
                              dbOk \in Input(valid /\ patch = "ok", BOOLEAN) :
                           \E conferenceData \in Input(valid /\ patch = "ok" /\ dbOk, BOOLEAN),
                              actOk \in Input(valid /\ patch = "ok" /\ dbOk, BOOLEAN) :
                              Apply(GoogleUpdateEvent(h.accessToken, eventId, eventData, get,
                                                      existing, patch, orgName,
                                                      conferenceData, dbOk, actOk), authHeader, provider)
                 \/ /\ h.err = None
                    /\ h.provider = MICROSOFT
                    /\ \E access \in TransportResults :
                       \E get \in Input(access = "ok", TransportResults) :
                       \E existing \in Input(access = "ok" /\ get = "ok" /\ StartOnly(eventData),
                                             ExistingTimes),
                          now \in Input(access = "ok" /\ get = "ok" /\ both, Clock) :
                       LET valid == /\ access = "ok"
                                    /\ get = "ok"
                                    /\ both => MicrosoftValidateTimeLogic(eventData.startTime,
                                                                          eventData.endTime, now)
                       IN  \E patch \in Input(valid, TransportResults) :
                           \E dbOk \in Input(valid /\ patch = "ok", BOOLEAN) :
                           \E isOnlineMeeting \in Input(valid /\ patch = "ok" /\ dbOk, BOOLEAN),
                              readOk \in Input(valid /\ patch = "ok" /\ dbOk
                                               /\ ~Truthy(eventData.leadId), BOOLEAN) :
                           \E actOk \in Input(valid /\ patch = "ok" /\ dbOk /\ readOk, BOOLEAN) :
                              Apply(MicrosoftUpdateEvent(h.accessToken, eventId, eventData,
                                                         access, get, existing, now, patch,
                                                         isOnlineMeeting, dbOk, readOk, actOk), authHeader, provider)

updateEvent == UpdateEventOf(RequestIds, HeaderPairs, UpdateRequests)

\* ------------------- CalenderSyncController.getEvents and getContacts
\* The header pairs of the read requests: those of HeaderPairs, the pair
\* with a blank token and a pair whose authorization value has no "Bearer "
\* in it.
ReadHeaderPairs == HeaderPairs \cup BlankTokenPairs \cup {<< <<"tok">>, "google" >>}

\* The list handler, for requests that carry a header pair of pairs, the
\* provider answering with a list of events of answers.
GetEventsOf(pairs, answers) ==
    \E hp \in pairs :
        LET authHeader == hp[1]
            provider == hp[2]
            h == validateHeaders(authHeader, provider)
        IN  \/ /\ h.err # None
               /\ Apply(Rejected("list", h.err), authHeader, provider)
            \/ /\ h.err = None
               /\ h.provider = GOOGLE
               /\ \E list \in TransportResults :
                  \E hasItems \in Input(list = "ok", BOOLEAN) :
                  \E profileOk \in Input(list = "ok" /\ hasItems, BOOLEAN),
                     items \in Input(list = "ok" /\ hasItems, answers) :
                     Apply(GoogleGetEvents(h.accessToken, list, hasItems, profileOk, items),
                           authHeader, provider)
            \/ /\ h.err = None
               /\ h.provider = MICROSOFT
               /\ \E access \in TransportResults :
                  \E list \in Input(access = "ok", TransportResults) :
                  \E value \in Input(access = "ok" /\ list = "ok", answers) :
                     Apply(MicrosoftGetEvents(h.accessToken, access, list, value),
                           authHeader, provider)

\* An event of a provider's answer: its id and its organizer's display name
\* and address.
ProviderEvent(id, name, email) == [id |-> id, organizer |-> [name |-> name, email |-> email]]

\* The answer to the gateway's list requests: one event, its organizer named.
OneEvent == {<<ProviderEvent(EventId(1), "Organizer Name", "user1")>>}

getEvents == GetEventsOf(ReadHeaderPairs, OneEvent)

\* A person or contact of a provider's answer: its id and its email
\* addresses.
Contact(id, emailAddresses) == [id |-> id, emailAddresses |-> emailAddresses]

\* The contacts handler, for requests that carry a header pair of pairs,
\* the Google answers holding a list of googlePeople and the two Microsoft
\* answers a list of microsoftContacts and one of microsoftPeople.
GetContactsOf(pairs, googlePeople, microsoftContacts, microsoftPeople) ==
    \E hp \in pairs :
        LET authHeader == hp[1]
            provider == hp[2]
            h == validateHeaders(authHeader, provider)
        IN  \/ /\ h.err # None
               /\ Apply(Rejected("contacts", h.err), authHeader, provider)
            \/ /\ h.err = None
               /\ h.provider = GOOGLE
               /\ \E connections \in TransportResults :
                  \E found \in Input(connections = "ok", BOOLEAN) :
                  \E other \in Input(connections = "ok" /\ ~found, TransportResults) :
                  \E otherFound \in Input(connections = "ok" /\ ~found /\ other = "ok",
                                          BOOLEAN) :
                  \E groups \in Input(connections = "ok" /\ ~found
                                       /\ ~(other = "ok" /\ otherFound), TransportResults) :
                  \E groupsWithMembers \in Input(connections = "ok" /\ ~found
                                                  /\ ~(other = "ok" /\ otherFound)
                                                  /\ groups = "ok", 0 .. 1) :
                  LET answered == connections = "ok" /\ (found \/ (other = "ok" /\ otherFound))
                      searched == /\ connections = "ok"
                                  /\ ~answered
                                  /\ groups = "ok"
                                  /\ groupsWithMembers > 0
                  IN  \E people \in Input(answered \/ searched,
                                          IF answered THEN googlePeople \ {<<>>}
                                          ELSE googlePeople) :
                         Apply(GoogleGetContacts(h.accessToken, connections, found, other,
                                                 otherFound, groups, groupsWithMembers,
                                                 people),
                               authHeader, provider)
            \/ /\ h.err = None
               /\ h.provider = MICROSOFT
               /\ \E access \in TransportResults :
                  \E contacts \in Input(access = "ok", TransportResults) :
                  \E people \in Input(access = "ok" /\ contacts = "ok", TransportResults) :
                  \E contactsValue \in Input(access = "ok" /\ contacts = "ok" /\ people = "ok",
                                             microsoftContacts),
                     peopleValue \in Input(access = "ok" /\ contacts = "ok" /\ people = "ok",
                                           microsoftPeople) :
                     Apply(MicrosoftGetContacts(h.accessToken, access, contacts, people,
                                                contactsValue, peopleValue),
                           authHeader, provider)

\* The contact lists of the gateway's contacts requests: one person.
OnePerson == {<<Contact(<<"c", 1>>, <<"ann@x.io">>)>>}

getContacts == GetContactsOf(ReadHeaderPairs, OnePerson, OnePerson, {<<>>})

\* ------------------------------------- CalenderSyncController.logMeeting
VIRTUAL == "VIRTUAL"
MeetingType == {VIRTUAL, "IN_PERSON"}
VirtualMeetingProvider == {"ZOOM"}

\* The outcome of a collaborator call that hands back an id: Failed when it
\* throws, None when its answer carries no id.
Failed == "fail"

\* LogMeetingRejects without the check of the follow-up task details.
LogMeetingRejectsNoTaskCheck(logMeetingDto, organizationId) ==
    \/ ~Truthy(organizationId)
    \/ /\ logMeetingDto.meetingType = VIRTUAL
       /\ ~Truthy(logMeetingDto.virtualMeetingProvider)

\* The three validations at the head of logMeeting: TRUE when one throws.
LogMeetingRejects(logMeetingDto, organizationId) ==
    \/ ~Truthy(organizationId)
    \/ /\ logMeetingDto.meetingType = VIRTUAL
       /\ ~Truthy(logMeetingDto.virtualMeetingProvider)
    \/ /\ logMeetingDto.createFollowUpTask
       /\ ~Truthy(logMeetingDto.followUpTask)

\* A collaborator that was not called.
NotCalled == "notCalled"

\* BackfillIds with the task id left out of the update.
BackfillIdsActivityOnly(activityId, taskId) == "activityId" :> activityId

\* The update document of the findByIdAndUpdate that backfills the ids.
BackfillIds(activityId, taskId) == ("activityId" :> activityId) @@ ("taskId" :> taskId)

\* SaveError with the failure of save() logged and ignored.
SaveErrorIgnored(saveOk) == None

\* The exception that ends logMeeting when loggedMeeting.save() throws: the
\* outer catch rethrows it as a BadRequestException.
SaveError(saveOk) == IF saveOk THEN None ELSE "BadRequest"

\* saveOk: the LoggedMeeting save() succeeds; activity, task: what
\* logActivity and createTask end in (Failed, None or the new id); patchOk:
\* the findByIdAndUpdate of the ids succeeds.
LogMeeting(logMeetingDto, organizationId, saveOk, activity, task, patchOk) ==
    LET obs == [NoObservation EXCEPT !.op = "log", !.adapter = "local",
                    !.meeting = [meetingType |-> logMeetingDto.meetingType,
                                 virtualMeetingProvider |->
                                     logMeetingDto.virtualMeetingProvider,
                                 leadId |-> logMeetingDto.leadId,
                                 createFollowUpTask |-> logMeetingDto.createFollowUpTask,
                                 followUpTask |-> logMeetingDto.followUpTask,
                                 organizationId |-> organizationId]]
        id == FreshMeetingId(assigned)
        doc == [meetingType |-> logMeetingDto.meetingType,
                virtualMeetingProvider |-> logMeetingDto.virtualMeetingProvider,
                leadId |-> logMeetingDto.leadId,
                loggedBy |-> "system",
                organizationId |-> organizationId,
                activityId |-> None,
                taskId |-> None,
                isActive |-> TRUE,
                meetingDateTime |-> 0]
        saved == IF saveOk THEN SaveEvent(loggedMeetings, id, doc) ELSE loggedMeetings
        ids == IF saveOk THEN assigned \cup {id} ELSE assigned
        activityId == IF activity = Failed THEN None ELSE activity
        wantsTask == logMeetingDto.createFollowUpTask /\ Truthy(logMeetingDto.followUpTask)
        taskId == IF wantsTask /\ task # Failed THEN task ELSE None
        saveFailed == IF saveOk THEN {} ELSE {"save"}
        activityFailed == IF activity = Failed THEN {"activity"} ELSE {}
        taskFailed == IF wantsTask /\ task = Failed THEN {"task"} ELSE {}
        logged == [obs EXCEPT !.id = IF saveOk THEN id ELSE UnknownId,
                       !.saveCalls = 1, !.activityCalls = 1,
                       !.taskCalls = IF wantsTask THEN 1 ELSE 0,
                       !.failed = saveFailed \cup activityFailed \cup taskFailed,
                       !.answers = [activity |-> activity,
                                    task |-> IF wantsTask THEN task ELSE NotCalled]]
    IN  \* Every exception of the handler is rethrown as a BadRequestException.
        IF LogMeetingRejects(logMeetingDto, organizationId)
        THEN ResultM([obs EXCEPT !.outcome = "BadRequest"], calendarEvents, assigned,
                     loggedMeetings)
        ELSE IF SaveError(saveOk) # None
        THEN ResultM([obs EXCEPT !.outcome = SaveError(saveOk), !.saveCalls = 1,
                                 !.failed = {"save"}],
                     calendarEvents, assigned, loggedMeetings)
        ELSE IF wantsTask /\ task = Failed
        THEN \* createTask is awaited outside any inner try block.
             ResultM([logged EXCEPT !.outcome = "BadRequest"], calendarEvents, ids, saved)
        ELSE IF (Truthy(activityId) \/ Truthy(taskId)) /\ ~patchOk
        THEN ResultM([logged EXCEPT !.outcome = "BadRequest", !.failed = @ \cup {"patch"}],
                     calendarEvents, ids, saved)
        ELSE IF Truthy(activityId) \/ Truthy(taskId)
        THEN ResultM([logged EXCEPT !.outcome = "ok",
                                    !.response = [activityId |-> activityId,
                                                  taskId |-> taskId]],
                     calendarEvents, ids,
                     findOneAndUpdate(saved, id, BackfillIds(activityId, taskId)))
        ELSE ResultM([logged EXCEPT !.outcome = "ok",
                                    !.response = [activityId |-> activityId,
                                                  taskId |-> taskId]],
                     calendarEvents, ids, saved)

LogMeetingDtos ==
    [meetingType : MeetingType, virtualMeetingProvider : {None} \cup VirtualMeetingProvider,
     leadId : {"L1"}, createFollowUpTask : BOOLEAN, followUpTask : {None, "details"}]
OrganizationIds == {None, "", "org1"}
ActivityResults == {Failed, None, "A1"}
TaskResults == {Failed, None, "T1"}

\* The handler, for requests with a body of dtos and an x-organization-id
\* header of organizationIds.
LogMeetingOf(dtos, organizationIds) ==
    \E logMeetingDto \in dtos, organizationId \in organizationIds :
        LET valid == ~LogMeetingRejects(logMeetingDto, organizationId)
        IN  \E saveOk \in Input(valid, BOOLEAN) :
            \E activity \in Input(valid, ActivityResults),
               task \in Input(valid /\ logMeetingDto.createFollowUpTask, TaskResults) :
            \E patchOk \in Input(valid, BOOLEAN) :
                Apply(LogMeeting(logMeetingDto, organizationId, saveOk, activity, task,
                                 patchOk), <<>>, None)

logMeeting == LogMeetingOf(LogMeetingDtos, OrganizationIds)

\* --------------------------------- CalenderSyncController.getLocalEvents
\* The ids of the stored records, in the order find() returns them.
FeedEventIds == [n \in 1 .. FeedEvents |-> EventId(n)]
FeedMeetingIds == [n \in 1 .. FeedMeetings |-> MeetingId(n)]

\* CalendarQuery with the isActive condition left out.
CalendarQueryAnyActivity(doc, provider, userId, leadId) ==
    /\ Truthy(provider) => doc.provider = ToLowerCase(provider)
    /\ Truthy(userId) => doc.userId = userId
    /\ Truthy(leadId) => doc.leadId = leadId

\* calendarQuery: the CalendarEvent documents the feed selects.
CalendarQuery(doc, provider, userId, leadId) ==
    /\ doc.isActive
    /\ Truthy(provider) => doc.provider = ToLowerCase(provider)
    /\ Truthy(userId) => doc.userId = userId
    /\ Truthy(leadId) => doc.leadId = leadId

\* loggedMeetingsQuery: the LoggedMeeting documents the feed selects.
LoggedMeetingsQuery(doc, leadId) ==
    /\ doc.isActive
    /\ Truthy(leadId) => doc.leadId = leadId

\* The userProfile of a feed build that has looked up nothing.
NoProfile == [name |-> None, email |-> None]

\* The mapping of a CalendarEvent document to a feed item.
MapCalendarEvent(id, event, userProfile) ==
    LET stored == event.organizerName
        backfilled ==
            IF ~Truthy(stored) /\ Truthy(userProfile.name)
               /\ event.organizer = userProfile.email
            THEN userProfile.name ELSE stored
        organizerName ==
            IF Truthy(backfilled) THEN backfilled
            ELSE IF Truthy(event.organizer) THEN event.organizer ELSE "user"
    IN  [id |-> id, startTime |-> event.startTime, endTime |-> event.endTime,
         organizerName |-> organizerName, leadId |-> event.leadId,
         source |-> "calendar_event"]

\* The mapping of a LoggedMeeting document to a feed item.
MapLoggedMeeting(id, meeting) ==
    [id |-> id, startTime |-> meeting.meetingDateTime,
     endTime |-> meeting.meetingDateTime, organizerName |-> meeting.loggedBy,
     leadId |-> meeting.leadId, source |-> "logged_meeting"]

\* Compare with the two items exchanged: oldest first.
CompareOldestFirst(a, b) == a.startTime - b.startTime

\* The comparator handed to Array.prototype.sort: newest first.
Compare(a, b) == b.startTime - a.startTime

\* Array.prototype.sort with that comparator: a stable sort, so an item goes
\* behind every item that does not compare after it.
RECURSIVE Insert(_, _)
Insert(sorted, item) ==
    IF sorted = <<>> THEN <<item>>
    ELSE IF Compare(Head(sorted), item) <= 0
    THEN <<Head(sorted)>> \o Insert(Tail(sorted), item)
    ELSE <<item>> \o sorted
RECURSIVE Sort(_)
Sort(items) ==
    IF items = <<>> THEN <<>>
    ELSE Insert(Sort(SubSeq(items, 1, Len(items) - 1)), items[Len(items)])

\* ProfileLookupError with the catch block rethrowing what it caught.
ProfileLookupErrorRethrown(lookup, profileOk) ==
    IF lookup /\ ~profileOk THEN "BadRequest" ELSE None

\* The exception that escapes the profile lookup of the feed: none, for
\* getUserProfile answers a failure with an empty profile and the handler
\* catches what is left.
ProfileLookupError(lookup, profileOk) == None

\* The feed built from what the two find() calls read of the two stores:
\* the selected events in query order, then the selected meetings in query
\* order, sorted.
FeedOf(storedEvents, storedMeetings, provider, userId, leadId, userProfile) ==
    LET SelectedEvent(id) ==
            /\ id \in DOMAIN storedEvents
            /\ CalendarQuery(storedEvents[id], provider, userId, leadId)
        SelectedMeeting(id) ==
            /\ id \in DOMAIN storedMeetings
            /\ LoggedMeetingsQuery(storedMeetings[id], leadId)
        events == SelectSeq(FeedEventIds, SelectedEvent)
        meetings == SelectSeq(FeedMeetingIds, SelectedMeeting)
        mappedCalendarEvents ==
            [i \in 1 .. Len(events) |->
                MapCalendarEvent(events[i], storedEvents[events[i]], userProfile)]
        mappedLoggedMeetings ==
            [i \in 1 .. Len(meetings) |->
                MapLoggedMeeting(meetings[i], storedMeetings[meetings[i]])]
    IN  Sort(mappedCalendarEvents \o mappedLoggedMeetings)

\* The feed of a handler that reads both stores in one step.
Feed(provider, userId, leadId, userProfile) ==
    FeedOf(calendarEvents, loggedMeetings, provider, userId, leadId, userProfile)

\* The profile of the Google account behind the token.
GoogleUserProfile == [name |-> "Profile Name", email |-> "user1"]

\* dbOk: the two find() calls succeed; profileOk: the profile lookup
\* succeeds.
GetLocalEvents(provider, userId, leadId, authHeader, calendarProvider, dbOk, profileOk) ==
    LET lookup == calendarProvider = GOOGLE /\ authHeader # <<>>
        userProfile == IF lookup /\ profileOk THEN GoogleUserProfile ELSE NoProfile
        obs == [NoObservation EXCEPT !.op = "feed", !.adapter = "local",
                    !.query = [provider |-> provider, userId |-> userId,
                               leadId |-> leadId,
                               calendarProvider |-> calendarProvider]]
        looked == [obs EXCEPT !.transportCalls = IF lookup THEN 1 ELSE 0,
                       !.profile = IF ~lookup THEN NotCalled
                                   ELSE IF profileOk THEN "ok" ELSE Failed,
                       !.failed = IF lookup /\ ~profileOk THEN {"provider"} ELSE {}]
    IN  \* Every exception of the handler is rethrown as a BadRequestException.
        IF ~dbOk
        THEN Result([obs EXCEPT !.outcome = "BadRequest", !.failed = {"db"}],
                    calendarEvents, assigned)
        ELSE IF ProfileLookupError(lookup, profileOk) # None
        THEN Result([looked EXCEPT !.outcome = ProfileLookupError(lookup, profileOk)],
                    calendarEvents, assigned)
        ELSE Result([looked EXCEPT !.outcome = "ok",
                                   !.data = Feed(provider, userId, leadId, userProfile)],
                    calendarEvents, assigned)

\* The query parameters of the feed requests.
ProviderFilters == {None, "GOOGLE"}
UserFilters == {None, "user2"}
LeadFilters == {None, "L1"}

\* The handler, for requests with query parameters of providers, users and
\* leads and a header pair of pairs.
GetLocalEventsOf(providers, users, leads, pairs) ==
    \E provider \in providers, userId \in users, leadId \in leads,
       hp \in pairs, dbOk \in BOOLEAN :
        LET authHeader == hp[1]
            calendarProvider == hp[2]
        IN  \E profileOk \in Input(dbOk /\ calendarProvider = GOOGLE /\ authHeader # <<>>,
                                    BOOLEAN) :
                Apply(GetLocalEvents(provider, userId, leadId, authHeader,
                                     calendarProvider, dbOk, profileOk),
                      authHeader, calendarProvider)

getLocalEvents == GetLocalEventsOf(ProviderFilters, UserFilters, LeadFilters, HeaderPairs)

\* The stores the feed is built from.  The first event is of any provider
\* and lead, active or not, and has no organizer name; the others are active
\* Google events of lead L1 with one.  An event's userId is its organizer's
\* address.  The first meeting is of any lead, active or not.
FeedEventDoc(n, provider, leadId, isActive, startTime) ==
    [provider |-> provider, userId |-> IF n = 1 THEN "user1" ELSE "user2",
     leadId |-> leadId, startTime |-> startTime, endTime |-> startTime + 1,
     isOnlineMeeting |-> FALSE, isActive |-> isActive,
     organizer |-> IF n = 1 THEN "user1" ELSE "user2",
     organizerName |-> IF n = 1 THEN None ELSE "Organizer Name"]
FeedMeetingDoc(leadId, isActive, meetingDateTime) ==
    [meetingType |-> "IN_PERSON", virtualMeetingProvider |-> None, leadId |-> leadId,
     loggedBy |-> "system", organizationId |-> "org1", activityId |-> None,
     taskId |-> None, isActive |-> isActive, meetingDateTime |-> meetingDateTime]

InitFeed ==
    /\ \E first \in [provider : CalendarProvider, leadId : {"L1", "L2"}, isActive : BOOLEAN],
          startTime \in [1 .. FeedEvents -> Times] :
          calendarEvents =
              [id \in {EventId(n) : n \in 1 .. FeedEvents} |->
                  IF id[2] = 1
                  THEN FeedEventDoc(1, first.provider, first.leadId, first.isActive,
                                    startTime[1])
                  ELSE FeedEventDoc(id[2], GOOGLE, "L1", TRUE, startTime[id[2]])]
    /\ \E first \in [leadId : {"L1", "L2"}, isActive : BOOLEAN],
          meetingDateTime \in [1 .. FeedMeetings -> Times] :
          loggedMeetings =
              [id \in {MeetingId(n) : n \in 1 .. FeedMeetings} |->
                  IF id[2] = 1
                  THEN FeedMeetingDoc(first.leadId, first.isActive, meetingDateTime[1])
                  ELSE FeedMeetingDoc("L1", TRUE, meetingDateTime[id[2]])]
    /\ assigned = {EventId(n) : n \in 1 .. FeedEvents} \cup {MeetingId(n) : n \in 1 .. FeedMeetings}
    /\ everSaved = {EventId(n) : n \in 1 .. FeedEvents}
    /\ last = NoObservation
    /\ running = <<>>
    /\ held = <<>>

NextFeed == getLocalEvents

SpecFeed == InitFeed /\ [][NextFeed]_vars

\* -------------------------------------------------------- specification
Init ==
    /\ calendarEvents = [x \in {} |-> None]
    /\ assigned = {}
    /\ loggedMeetings = [x \in {} |-> None]
    /\ everSaved = {}
    /\ last = NoObservation
    /\ running = <<>>
    /\ held = <<>>

Next ==
    \/ createEvent
    \/ updateEvent
    \/ deleteEvent

Spec == Init /\ [][Next]_vars

\* The gateway with its five provider-backed handlers.  The create bodies
\* are a valid and an invalid one, the update bodies set no time.
GatewayCreateRequests == [startTime : {0}, endTime : Times, leadId : {"L1"}]
GatewayUpdateRequests == [startTime : {NoTime}, endTime : {NoTime}, leadId : {None, "L1"}]

dispatchCreateEvent == CreateEventOf(HeaderPairs, GatewayCreateRequests)
dispatchUpdateEvent == UpdateEventOf(RequestIds, HeaderPairs, GatewayUpdateRequests)

NextGateway ==
    \/ dispatchCreateEvent
    \/ getEvents
    \/ dispatchUpdateEvent
    \/ deleteEvent
    \/ getContacts

SpecGateway == Init /\ [][NextGateway]_vars

\* The meeting logger on its own.
NextLog == logMeeting

SpecLog == Init /\ [][NextLog]_vars

\* ------------------------------------------- the logged-meeting store
\* Requests of updateEvent and deleteEvent that name a logged meeting: with
\* no header, with the provider header alone, and with a provider header of
\* no known provider.
MeetingHeaderPairs ==
    {<< <<>>, "" >>, << <<>>, "google" >>, << <<BearerPrefix, "tok">>, "yahoo" >>}
\* Update bodies for a logged meeting: a lead id and, beyond the fields of
\* UpdateEventDto, a meetingType.
MeetingUpdateRequests ==
    [startTime : {NoTime}, endTime : {NoTime}, leadId : {None, "L2"},
     meetingType : {None, VIRTUAL}]

\* Log-meeting requests that ask for no follow-up task.
PlainMeetingDtos == {dto \in LogMeetingDtos : ~dto.createFollowUpTask /\ dto.followUpTask = None}

logPlainMeeting == LogMeetingOf(PlainMeetingDtos, {"org1"})
updateLoggedMeeting == UpdateEventOf(MeetingIds, MeetingHeaderPairs, MeetingUpdateRequests)
deleteLoggedMeeting == DeleteEventOf(MeetingIds, MeetingHeaderPairs)

NextMeetings ==
    \/ logPlainMeeting
    \/ updateLoggedMeeting
    \/ deleteLoggedMeeting

SpecMeetings == Init /\ [][NextMeetings]_vars

\* ------------------------------------------------- the contacts lists
\* The email addresses of the contacts: two that differ in letter case only
\* and a third.
Emails == {"ann@x.io", "Ann@x.io", "bob@x.io"}
AddressLists == UNION {[1 .. n -> Emails] : n \in 0 .. MaxAddresses}
\* The answers of up to n contacts; the i-th contact of a source has the id
\* <<source, i>>.
ContactLists(source, n) ==
    UNION {{[i \in 1 .. k |-> Contact(<<source, i>>, addresses[i])] :
               addresses \in [1 .. k -> AddressLists]} : k \in 0 .. n}

\* Contacts requests to either adapter, and one without headers.
ContactsHeaderPairs ==
    {<< <<BearerPrefix, "tok">>, "google" >>, << <<BearerPrefix, "tok">>, "Microsoft" >>,
     << <<>>, "" >>}

listContacts ==
    GetContactsOf(ContactsHeaderPairs, ContactLists("c", MaxContacts),
                  ContactLists("c", MaxPeople), ContactLists("p", MaxPeople))

NextContacts == listContacts

SpecContacts == Init /\ [][NextContacts]_vars

\* ------------------------------------------------ the duration limit
\* Create requests around the 24-hour limit, to either adapter: they start
\* at 1, not before any instant of Clock, and last a second less than 24
\* hours, 24 hours, or a second, 59 seconds, a minute or 61 seconds more.
DayRequests ==
    [startTime : {1},
     endTime : {1 + MaxDurationMinutes * 60 + d : d \in {-1, 0, 1, 59, 60, 61}},
     leadId : {None, "L1"}]
DayHeaderPairs ==
    {<< <<BearerPrefix, "tok">>, "google" >>, << <<BearerPrefix, "tok">>, "Microsoft" >>,
     << <<>>, "google" >>}

createDayEvent == CreateEventOf(DayHeaderPairs, DayRequests)

NextDay == createDayEvent

SpecDay == Init /\ [][NextDay]_vars

\* ------------------------------------------------- the listed events
\* The organizers of the provider's events: with or without a display name,
\* with or without an address.
Organizers == [name : OrganizerNames, email : {None, "user1", "user2"}]
\* The answers of up to MaxItems events; the i-th event has the id EventId(i).
EventLists ==
    UNION {{[i \in 1 .. k |-> [id |-> EventId(i), organizer |-> organizer[i]]] :
               organizer \in [1 .. k -> Organizers]} : k \in 0 .. MaxItems}

listEvents == GetEventsOf(ContactsHeaderPairs, EventLists)

NextList == listEvents

SpecList == Init /\ [][NextList]_vars

\* ------------------------------------------- the two time validations
\* The durations of the requests validated, in seconds: none, negative, a
\* second, and those around the 24-hour limit.
Durations == {-1, 0, 1} \cup {MaxDurationMinutes * 60 + d : d \in {-1, 0, 1, 59, 60}}

\* Both validateTimeLogic methods applied to one request under one clock.
validateTimeLogic ==
    \E startTime \in 1 .. MaxStart, d \in Durations, now \in 0 .. MaxStart + 1 :
        /\ last' = [NoObservation EXCEPT
                       !.op = "validate",
                       !.req = [startTime |-> startTime, endTime |-> startTime + d,
                                leadId |-> None],
                       !.duration = d,
                       !.validation =
                           [now |-> now,
                            google |-> GoogleValidateTimeLogic(startTime, startTime + d),
                            microsoft |-> MicrosoftValidateTimeLogic(startTime,
                                                                     startTime + d, now)]]
        /\ UNCHANGED <<calendarEvents, assigned, loggedMeetings, everSaved, running, held>>

NextValidate == validateTimeLogic

SpecValidate == Init /\ [][NextValidate]_vars

\* ------------------------------------------------- requests in flight
\* A feed build, an update through each adapter and a delete run at the same
\* time on one mirrored event.  A step of a request is one await of its
\* handler: the provider calls of an update or delete, one database call.
\* A findOneAndUpdate changes its document in one step, and a find() reads a
\* document in one step.
TargetId == EventId(1)
Requests == {"feed", "updateGoogle", "updateMicrosoft", "delete"}
Updates == {"updateGoogle", "updateMicrosoft"}

\* A request that has not started: pc: its position ("start", "write",
\* "return", "done"); pending: the update documents it has yet to write to
\* the mirror; update: the updateData it built; events: what its find() of
\* the mirror has read.
Idle == [pc |-> "start", pending |-> <<>>, update |-> NoUpdate, events |-> <<>>]

\* MirrorWrites with each field of the updateData written by a call of its
\* own, in the order start time, end time, the other fields.
MirrorWritesFieldByField(updateData) ==
    LET One(f) == IF f \in DOMAIN updateData THEN <<f :> updateData[f]>> ELSE <<>>
    IN  One("startTime") \o One("endTime") \o One("leadId") \o One("isOnlineMeeting")
        \o One("isActive")

\* The findOneAndUpdate calls with which a handler writes its updateData to
\* the mirror: one call with the whole document.
MirrorWrites(updateData) == <<updateData>>

\* The bodies of the updates in flight: one moves the event, one sets its
\* lead.
ConcurrentUpdateRequests ==
    {[startTime |-> 1, endTime |-> MaxTime + 1, leadId |-> None],
     [startTime |-> NoTime, endTime |-> NoTime, leadId |-> "L2"]}

\* The request has built its updateData and goes on to write it.
Built(r, updateData) ==
    running' = [running EXCEPT ![r] = [@ EXCEPT !.pc = "write",
                                                !.pending = MirrorWrites(updateData),
                                                !.update = updateData]]

\* GoogleCalendarService.updateEvent up to its mirror write: the GET and the
\* PATCH of the provider event; when one of them fails the request ends.
updateGoogleCall ==
    /\ running["updateGoogle"].pc = "start"
    /\ \E ok \in BOOLEAN :
       \E eventData \in Input(ok, ConcurrentUpdateRequests),
          conferenceData \in Input(ok, BOOLEAN) :
          IF ok THEN Built("updateGoogle", GoogleUpdateData(eventData, conferenceData))
          ELSE running' = [running EXCEPT !["updateGoogle"].pc = "done"]
    /\ UNCHANGED <<calendarEvents, assigned, loggedMeetings, everSaved, last, held>>

\* MicrosoftService.updateEvent up to its mirror write.
updateMicrosoftCall ==
    /\ running["updateMicrosoft"].pc = "start"
    /\ \E ok \in BOOLEAN :
       \E eventData \in Input(ok, ConcurrentUpdateRequests),
          isOnlineMeeting \in Input(ok, BOOLEAN) :
          IF ok THEN Built("updateMicrosoft", MicrosoftUpdateData(eventData, isOnlineMeeting))
          ELSE running' = [running EXCEPT !["updateMicrosoft"].pc = "done"]
    /\ UNCHANGED <<calendarEvents, assigned, loggedMeetings, everSaved, last, held>>

\* deleteEvent of either adapter up to its mirror write: the provider DELETE,
\* whose failure is logged and ignored.
deleteCall ==
    /\ running["delete"].pc = "start"
    /\ Built("delete", "isActive" :> FALSE)
    /\ UNCHANGED <<calendarEvents, assigned, loggedMeetings, everSaved, last, held>>

\* The next findOneAndUpdate of a request that is writing.  With its last
\* one the update is complete; what follows it (the lookup for the activity
\* log, logActivity) touches no record.
mirrorWrite ==
    \E r \in Requests :
        /\ running[r].pc = "write"
        /\ running[r].pending # <<>>
        /\ calendarEvents' =
               findOneAndUpdate(calendarEvents, TargetId, Head(running[r].pending))
        /\ IF Tail(running[r].pending) = <<>>
           THEN /\ running' = [running EXCEPT ![r] = [@ EXCEPT !.pc = "done",
                                                               !.pending = <<>>]]
                /\ held' = Append(held, calendarEvents'[TargetId])
           ELSE /\ running' = [running EXCEPT ![r].pending = Tail(@)]
                /\ held' = held
        /\ UNCHANGED <<assigned, loggedMeetings, everSaved, last>>

\* getLocalEvents, its find() of the mirror.
feedFind ==
    /\ running["feed"].pc = "start"
    /\ running' = [running EXCEPT !["feed"] = [@ EXCEPT !.pc = "return",
                                                        !.events = calendarEvents]]
    /\ UNCHANGED <<calendarEvents, assigned, loggedMeetings, everSaved, last, held>>

\* getLocalEvents from its find() of the logged meetings on: the request
\* carries no header, so no profile is looked up.
feedReturn ==
    /\ running["feed"].pc = "return"
    /\ \E leadId \in LeadFilters :
          last' = [NoObservation EXCEPT
                      !.op = "feed", !.adapter = "local", !.outcome = "ok",
                      !.query = [provider |-> None, userId |-> None, leadId |-> leadId,
                                 calendarProvider |-> None],
                      !.data = FeedOf(running["feed"].events, loggedMeetings, None, None,
                                      leadId, NoProfile)]
    /\ running' = [running EXCEPT !["feed"].pc = "done"]
    /\ UNCHANGED <<calendarEvents, assigned, loggedMeetings, everSaved, held>>

\* The mirror holds one active Google event of lead L1 that runs from 0 to
\* 1, the requests have arrived.
InitConcurrent ==
    /\ calendarEvents = (TargetId :> FeedEventDoc(1, GOOGLE, "L1", TRUE, 0))
    /\ loggedMeetings = [x \in {} |-> None]
    /\ assigned = {TargetId}
    /\ everSaved = {TargetId}
    /\ last = NoObservation
    /\ running = [r \in Requests |-> Idle]
    /\ held = <<calendarEvents[TargetId]>>

NextConcurrent ==
    \/ updateGoogleCall
    \/ updateMicrosoftCall
    \/ deleteCall
    \/ mirrorWrite
    \/ feedFind
    \/ feedReturn

SpecConcurrent == InitConcurrent /\ [][NextConcurrent]_vars

\* ------------------------------------------------ the life of an event
\* An event is created, updated, deleted and listed in the feed, and
\* meetings are logged.  The update bodies set no field of UpdateEventDto
\* and may carry, beyond them, isActive: true.
LifecycleUpdateRequests ==
    [startTime : {NoTime}, endTime : {NoTime}, leadId : {None}]
    \cup [startTime : {NoTime}, endTime : {NoTime}, leadId : {None}, isActive : {TRUE}]
LifecycleCreateRequests == [startTime : {0}, endTime : {1}, leadId : {"L1"}]
\* Requests through either adapter and requests without headers.
LifecycleHeaderPairs == {<< <<BearerPrefix, "tok">>, "google" >>, << <<BearerPrefix, "tok">>, "Microsoft" >>, << <<>>, "" >>}
LifecycleMeetingDtos == {dto \in PlainMeetingDtos : dto.meetingType = "IN_PERSON"}

lifecycleCreate == CreateEventOf(LifecycleHeaderPairs, LifecycleCreateRequests)
lifecycleUpdate == UpdateEventOf(RequestIds, LifecycleHeaderPairs, LifecycleUpdateRequests)
lifecycleDelete == DeleteEventOf(RequestIds, LifecycleHeaderPairs)
lifecycleLog == LogMeetingOf(LifecycleMeetingDtos, {"org1"})
lifecycleFeed == GetLocalEventsOf({None}, {None}, LeadFilters, {<< <<>>, "" >>})

NextLifecycle ==
    \/ lifecycleCreate
    \/ lifecycleUpdate
    \/ lifecycleDelete
    \/ lifecycleLog
    \/ lifecycleFeed

SpecLifecycle == Init /\ [][NextLifecycle]_vars

\* ================================================================= claims
\* The fields of the mirror record of event id that differ between the two
\* mirrors.
ChangedFields(before, after, id) ==
    {f \in DOMAIN before[id] : after[id][f] # before[id][f]}

\* C1: for both provider adapters, a createEvent whose end time is not
\* strictly after its start time (and none of whose collaborator calls has
\* failed) is rejected, and by the time it is rejected it has made no
\* provider HTTP call.
C1_RejectedBeforeAnyTransportCall ==
    (/\ last.op = "create"
     /\ last.adapter \in CalendarProvider
     /\ ~last.endAfterStart
     /\ last.failed = {})
    => (last.outcome # "ok" /\ last.transportCalls = 0)

\* C2: in every reachable state, every stored CalendarEvent has an end time
\* strictly after its start time.
C2_EndAfterStart ==
    \A id \in DOMAIN calendarEvents :
        calendarEvents[id].endTime > calendarEvents[id].startTime

\* C3: a successful updateEvent of either adapter changes, in the mirror
\* record, only fields that are present in the request.
C3_OnlyRequestedFieldsChange ==
    [][(/\ last'.op = "update"
        /\ last'.adapter \in CalendarProvider
        /\ last'.outcome = "ok"
        /\ last'.id \in DOMAIN calendarEvents)
       => /\ last'.id \in DOMAIN calendarEvents'
          /\ ChangedFields(calendarEvents, calendarEvents', last'.id)
                 \subseteq DOMAIN RequestedFields(last'.req)]_vars

C5_NeverHardDeleted ==
    [][/\ DOMAIN calendarEvents \subseteq DOMAIN calendarEvents'
       /\ everSaved' \subseteq DOMAIN calendarEvents'
       /\ last'.op = "delete"
            => \A id \in DOMAIN calendarEvents :
                   ChangedFields(calendarEvents, calendarEvents', id) \subseteq {"isActive"}]_vars

\* C6: a deleteEvent with neither an authorization nor a provider header,
\* for the external id of a mirrored record and with the database answering,
\* leaves the record in the mirror with its active flag cleared, reports
\* success and makes no provider HTTP call.
C6_HeaderlessDeleteSoftDeletes ==
    [][(/\ last'.op = "delete"
        /\ ~last'.headers.auth
        /\ ~last'.headers.provider
        /\ "db" \notin last'.failed
        /\ last'.id \in DOMAIN calendarEvents)
       => /\ last'.id \in DOMAIN calendarEvents'
          /\ ~calendarEvents'[last'.id].isActive
          /\ last'.outcome = "ok"
          /\ last'.transportCalls = 0]_vars

\* C7: for both adapters, a deleteEvent with a usable token whose provider
\* DELETE fails, and whose mirror write succeeds, reports success and leaves
\* the mirror record inactive.
C7_ProviderDeleteFailureNotFatal ==
    (/\ last.op = "delete"
     /\ last.adapter \in CalendarProvider
     /\ "provider" \in last.failed
     /\ "db" \notin last.failed)
    => /\ last.outcome = "ok"
       /\ last.id \in DOMAIN calendarEvents => ~calendarEvents[last.id].isActive

\* C7 witness: the provider DELETE of a mirrored Google event has failed and
\* the mirror write has gone through.
C7_Witness ==
    /\ last.op = "delete"
    /\ last.adapter = GOOGLE
    /\ last.transportCalls = 1
    /\ "provider" \in last.failed
    /\ "db" \notin last.failed
    /\ last.id \in DOMAIN calendarEvents
    /\ ~calendarEvents[last.id].isActive

\* C8: logMeeting raises a BadRequestException, having made no save() call,
\* no logActivity call and no createTask call and stored nothing, whenever
\* the organization id is empty, or the meeting is virtual without a virtual
\* meeting provider, or a follow-up task is requested without its details.
C8_InvalidLogRejectedFirst ==
    [][(/\ last'.op = "log"
        /\ \/ last'.meeting.organizationId \in {None, ""}
           \/ /\ last'.meeting.meetingType = VIRTUAL
              /\ last'.meeting.virtualMeetingProvider = None
           \/ /\ last'.meeting.createFollowUpTask
              /\ last'.meeting.followUpTask = None)
       => /\ last'.outcome = "BadRequest"
          /\ last'.saveCalls = 0
          /\ last'.activityCalls = 0
          /\ last'.taskCalls = 0
          /\ loggedMeetings' = loggedMeetings]_vars

\* C8 witness: an otherwise valid request that asks for a follow-up task
\* without details has been rejected.
C8_Witness ==
    /\ last.op = "log"
    /\ last.outcome = "BadRequest"
    /\ last.meeting.organizationId = "org1"
    /\ last.meeting.meetingType = VIRTUAL
    /\ last.meeting.virtualMeetingProvider = "ZOOM"
    /\ last.meeting.createFollowUpTask
    /\ last.meeting.followUpTask = None
    /\ last.saveCalls = 0

\* C9: once the LoggedMeeting is saved, and with the database answering,
\* logMeeting reports success with the meeting id whether or not logActivity
\* or createTask fails, and has attempted both the activity log and every
\* requested follow-up task.
C9_SideEffectFailuresNotFatal ==
    (/\ last.op = "log"
     /\ last.saveCalls = 1
     /\ last.failed \cap {"save", "patch"} = {})
    => /\ last.outcome = "ok"
       /\ last.id \in DOMAIN loggedMeetings
       /\ last.activityCalls = 1
       /\ last.meeting.createFollowUpTask => last.taskCalls = 1

\* C10: when save() of the LoggedMeeting fails, logMeeting raises an error,
\* stores no record and calls neither logActivity nor createTask.
C10_SaveFailureIsFatal ==
    [][(last'.op = "log" /\ "save" \in last'.failed)
       => /\ last'.outcome # "ok"
          /\ loggedMeetings' = loggedMeetings
          /\ last'.activityCalls = 0
          /\ last'.taskCalls = 0]_vars

\* C10 witness: the save() of a valid request that asks for a follow-up task
\* has failed, with one meeting already logged.
C10_Witness ==
    /\ last.op = "log"
    /\ "save" \in last.failed
    /\ last.saveCalls = 1
    /\ last.meeting.createFollowUpTask
    /\ last.meeting.followUpTask # None
    /\ DOMAIN loggedMeetings # {}

\* The id a collaborator call has handed back: none when the call failed,
\* was not made or answered without an id.
IdObtained(answer) == IF answer \in {Failed, NotCalled} THEN None ELSE answer

\* C11: when logMeeting returns successfully, the activityId and taskId of
\* the stored LoggedMeeting are the ids that logActivity and createTask
\* handed back (none for a call that failed, was not made or gave no id),
\* and the response carries the same two ids.
C11_BackfilledIdsAreObtainedIds ==
    (last.op = "log" /\ last.outcome = "ok")
    => /\ last.id \in DOMAIN loggedMeetings
       /\ loggedMeetings[last.id].activityId = IdObtained(last.answers.activity)
       /\ loggedMeetings[last.id].taskId = IdObtained(last.answers.task)
       /\ last.response.activityId = IdObtained(last.answers.activity)
       /\ last.response.taskId = IdObtained(last.answers.task)

\* C11 witness: logActivity has failed, createTask has handed back an id,
\* and the stored meeting carries the task id alone.
C11_Witness ==
    /\ last.op = "log"
    /\ last.outcome = "ok"
    /\ last.answers.activity = Failed
    /\ last.answers.task = "T1"
    /\ last.id \in DOMAIN loggedMeetings
    /\ loggedMeetings[last.id].activityId = None
    /\ loggedMeetings[last.id].taskId = "T1"
    /\ last.response.taskId = "T1"

\* C12: in every reachable state, every stored LoggedMeeting whose meeting
\* type is VIRTUAL carries a non-empty virtual meeting provider.
C12_VirtualHasProvider ==
    \A id \in DOMAIN loggedMeetings :
        loggedMeetings[id].meetingType = VIRTUAL
            => Truthy(loggedMeetings[id].virtualMeetingProvider)

\* C13: no step removes a stored LoggedMeeting or changes any of its fields
\* other than activityId and taskId.
C13_OnlyIdsBackfilled ==
    [][\A id \in DOMAIN loggedMeetings :
           /\ id \in DOMAIN loggedMeetings'
           /\ ChangedFields(loggedMeetings, loggedMeetings', id)
                  \subseteq {"activityId", "taskId"}]_vars

\* The positions of the feed at which the record id of the given source
\* appears.
FeedPositions(data, source, id) ==
    {i \in DOMAIN data : data[i].source = source /\ data[i].id = id}

\* C14: a feed that getLocalEvents returns holds exactly one item for each
\* active CalendarEvent that matches every supplied provider (whatever its
\* letter case), user and lead filter, exactly one item for each active
\* LoggedMeeting that matches the lead filter when one is supplied, and no
\* other item.
C14_FeedIsTheMatchingActiveRecords ==
    (last.op = "feed" /\ last.outcome = "ok")
    => LET q == last.query
           wantedEvents ==
               {id \in DOMAIN calendarEvents :
                   /\ calendarEvents[id].isActive
                   /\ q.provider # None
                        => calendarEvents[id].provider = ToLowerCase(q.provider)
                   /\ q.userId # None => calendarEvents[id].userId = q.userId
                   /\ q.leadId # None => calendarEvents[id].leadId = q.leadId}
           wantedMeetings ==
               {id \in DOMAIN loggedMeetings :
                   /\ loggedMeetings[id].isActive
                   /\ q.leadId # None => loggedMeetings[id].leadId = q.leadId}
       IN  /\ \A id \in wantedEvents :
                  Cardinality(FeedPositions(last.data, "calendar_event", id)) = 1
           /\ \A id \in wantedMeetings :
                  Cardinality(FeedPositions(last.data, "logged_meeting", id)) = 1
           /\ \A i \in DOMAIN last.data :
                  \/ /\ last.data[i].source = "calendar_event"
                     /\ last.data[i].id \in wantedEvents
                  \/ /\ last.data[i].source = "logged_meeting"
                     /\ last.data[i].id \in wantedMeetings

\* C14 witness: a feed filtered by provider and user holds the one event
\* that matches and a logged meeting, while an active event of the other
\* user is in the store.
C14_Witness ==
    /\ last.op = "feed"
    /\ last.outcome = "ok"
    /\ last.query.provider = "GOOGLE"
    /\ last.query.userId = "user2"
    /\ last.query.leadId = None
    /\ calendarEvents[EventId(1)].isActive
    /\ Len(last.data) = 2
    /\ \E i \in DOMAIN last.data : last.data[i].source = "logged_meeting"
    /\ \E i \in DOMAIN last.data : last.data[i].id = EventId(2)

\* The place of a feed item in the input of the sort: the calendar events in
\* query order, then the logged meetings in query order.
InputRank(item) ==
    IF item.source = "calendar_event" THEN item.id[2] ELSE FeedEvents + item.id[2]

\* C15: a feed that getLocalEvents returns is ordered by start time
\* descending, items with equal start times are in input order (calendar
\* events in query order, then logged meetings in query order), and a feed
\* built again for the same request from the same stores is the same
\* sequence.
C15_FeedNewestFirstAndStable ==
    [][(last'.op = "feed" /\ last'.outcome = "ok")
       => /\ \A i, j \in DOMAIN last'.data :
                 i < j => /\ last'.data[i].startTime >= last'.data[j].startTime
                          /\ last'.data[i].startTime = last'.data[j].startTime
                               => InputRank(last'.data[i]) < InputRank(last'.data[j])
          /\ (/\ last.op = "feed"
              /\ last.outcome = "ok"
              /\ last'.query = last.query
              /\ last'.profile = last.profile
              /\ calendarEvents' = calendarEvents
              /\ loggedMeetings' = loggedMeetings)
             => last'.data = last.data]_vars

\* C15 witness: the sort has moved the older first event behind the second
\* event and the logged meeting, which start together and are in input
\* order.
C15_Witness ==
    /\ last.op = "feed"
    /\ last.outcome = "ok"
    /\ Len(last.data) = 3
    /\ last.data[1].id = EventId(2)
    /\ last.data[2].source = "logged_meeting"
    /\ last.data[3].id = EventId(1)
    /\ last.data[1].startTime = last.data[2].startTime
    /\ last.data[3].startTime < last.data[2].startTime

IsBearerToken(authorization) ==
    /\ Len(authorization) >= 2
    /\ Head(authorization) = BearerPrefix

\* A provider header value that is, in some letter case, a known provider.
IsProviderTag(calendarProvider) == ToLowerCase(calendarProvider) \in CalendarProvider

\* The last request has gone through validateHeaders: create, list and
\* contacts requests always do, update and delete requests do when they
\* carry both headers.
HeadersValidated ==
    \/ last.op \in {"create", "list", "contacts"}
    \/ /\ last.op \in {"update", "delete"}
       /\ last.headers.auth
       /\ last.headers.provider

\* C17: a request that goes through header validation reaches an adapter
\* only if its authorization value is "Bearer " followed by a non-empty
\* token and its provider value is, whatever its letter case, a known
\* provider; with a missing or malformed bearer alone it ends in
\* Unauthorized, with a missing or invalid provider alone in BadRequest, and
\* with both in one of the two.
C17_HeaderValidation ==
    HeadersValidated
    => LET bearer == IsBearerToken(last.headers.authorization)
           tag == IsProviderTag(last.headers.calendarProvider)
       IN  /\ last.adapter \in CalendarProvider => bearer /\ tag
           /\ (~bearer /\ tag) => last.outcome = "Unauthorized"
           /\ (bearer /\ ~tag) => last.outcome = "BadRequest"
           /\ (~bearer /\ ~tag) => last.outcome \in {"Unauthorized", "BadRequest"}

\* C18: an updateEvent or deleteEvent takes the local-only branch only when
\* the request carries neither the authorization nor the provider header;
\* a request with exactly one of the two is rejected, as Unauthorized if
\* the authorization header is the missing one and as BadRequest if the
\* provider header is, and changes no record of either store.
C18_LocalBranchNeedsBothAbsent ==
    [][last'.op \in {"update", "delete"}
       => /\ last'.adapter = "local"
               => ~last'.headers.auth /\ ~last'.headers.provider
          /\ (~last'.headers.auth /\ last'.headers.provider)
               => /\ last'.outcome = "Unauthorized"
                  /\ calendarEvents' = calendarEvents
                  /\ loggedMeetings' = loggedMeetings
          /\ (last'.headers.auth /\ ~last'.headers.provider)
               => /\ last'.outcome = "BadRequest"
                  /\ calendarEvents' = calendarEvents
                  /\ loggedMeetings' = loggedMeetings]_vars

\* C19: a create, list, update, delete or contacts request whose
\* authorization value is "Bearer " followed by a token and whose provider
\* value names a known provider is handled by the adapter that the provider
\* header names, and by no other, and that adapter is called with the
\* authorization value less its "Bearer " prefix.
C19_DispatchToNamedAdapter ==
    (/\ last.op \in {"create", "list", "update", "delete", "contacts"}
     /\ IsBearerToken(last.headers.authorization)
     /\ IsProviderTag(last.headers.calendarProvider))
    => /\ last.adapter = ToLowerCase(last.headers.calendarProvider)
       /\ last.accessToken = Tail(last.headers.authorization)

\* C19 witness: a contacts request with the provider header "Microsoft" has
\* been answered by the Microsoft adapter, called with the bare token.
C19_Witness ==
    /\ last.op = "contacts"
    /\ last.headers.calendarProvider = "Microsoft"
    /\ last.headers.authorization = <<BearerPrefix, "tok">>
    /\ last.adapter = MICROSOFT
    /\ last.accessToken = <<"tok">>
    /\ last.outcome = "ok"

\* C20: for the list, create, update and contacts operations of both
\* adapters, an operation that a provider authentication or permission
\* failure has ended surfaces as Unauthorized.
C20_AuthFailureIsUnauthorized ==
    (/\ last.op \in {"list", "create", "update", "contacts"}
     /\ last.adapter \in CalendarProvider
     /\ last.providerError = "auth")
    => last.outcome = "Unauthorized"

\* C21: for every operation of both adapters, an operation that a
\* network-level failure of a provider call (timeout, connection refused)
\* has ended surfaces as BadRequest.
C21_NetworkFailureIsBadRequest ==
    (/\ last.adapter \in CalendarProvider
     /\ last.providerError = "network")
    => last.outcome = "BadRequest"

\* C22: for createEvent, updateEvent and deleteEvent of both adapters, an
\* operation whose provider calls and mirror accesses have succeeded and
\* whose logActivity call has thrown reports success.
C22_ActivityFailureNotFatal ==
    (/\ last.op \in {"create", "update", "delete"}
     /\ last.adapter \in CalendarProvider
     /\ "activity" \in last.failed
     /\ last.failed \cap {"provider", "db", "read"} = {})
    => last.outcome = "ok"

\* The email addresses, in lower case, of an entry of a returned contact
\* list.
EmailKeys(entry) ==
    IF "email" \in DOMAIN entry THEN {ToLowerCase(entry.email)}
    ELSE {ToLowerCase(entry.emailAddresses[i]) : i \in DOMAIN entry.emailAddresses}

\* The email addresses, in lower case, under which a contact of a provider's
\* answer enters the de-duplication: the first one in the Google adapter,
\* every one in the Microsoft adapter.
InputKeys(contact) ==
    IF last.adapter = GOOGLE
    THEN {ToLowerCase(contact.emailAddresses[i]) : i \in DOMAIN contact.emailAddresses \cap {1}}
    ELSE {ToLowerCase(contact.emailAddresses[i]) : i \in DOMAIN contact.emailAddresses}

\* C23: in the list a successful getContacts of either adapter returns, no
\* two entries share an email address compared without regard to letter
\* case, and the entry returned for an address is the first contact of the
\* provider's answers that has it.
C23_ContactsUniqueFirstKept ==
    (last.op = "contacts" /\ last.outcome = "ok")
    => /\ \A i, j \in DOMAIN last.data :
              i # j => EmailKeys(last.data[i]) \cap EmailKeys(last.data[j]) = {}
       /\ \A i \in DOMAIN last.data : \A k \in EmailKeys(last.data[i]) :
              \E n \in DOMAIN last.people :
                  /\ k \in InputKeys(last.people[n])
                  /\ \A m \in 1 .. n - 1 : k \notin InputKeys(last.people[m])
                  /\ last.people[n].id = last.data[i].id

\* C23 for the Google adapter alone.
C23_GoogleContactsUniqueFirstKept ==
    last.adapter = GOOGLE => C23_ContactsUniqueFirstKept

\* C24: a createEvent of either adapter whose request ends more than 24
\* hours (86400 seconds) after it starts is rejected and has made no
\* provider HTTP call by then, whatever the two timestamps are to the
\* second; one whose request lasts exactly 24 hours, and none of whose
\* collaborator calls has failed, is accepted.
C24_Over24HoursRejected ==
    (last.op = "create" /\ last.adapter \in CalendarProvider)
    => /\ last.duration > MaxDurationMinutes * 60
            => last.outcome # "ok" /\ last.transportCalls = 0
       /\ (last.duration = MaxDurationMinutes * 60 /\ last.failed = {})
            => last.outcome = "ok"

\* C24, for the Google adapter and for durations of whole minutes.
C24_Over24HoursRejectedWholeMinutes ==
    (last.adapter = GOOGLE /\ last.duration % 60 = 0) => C24_Over24HoursRejected

\* The organizer display name of a listed event as the chain resolves it:
\* the name in the provider's event, else the name of the profile looked up,
\* else the organizer's address, else "user".
ResolvedOrganizerName(event, profileName) ==
    IF Truthy(event.organizer.name) THEN event.organizer.name
    ELSE IF Truthy(profileName) THEN profileName
    ELSE IF Truthy(event.organizer.email) THEN event.organizer.email
    ELSE "user"

\* C25: every event that a successful getEvents of either adapter returns
\* has a non-empty organizer display name, and that name is the one in the
\* provider's event, else the name from the profile lookup, else the
\* organizer's address, else "user".
C25_ListedOrganizerNameResolved ==
    (last.op = "list" /\ last.outcome = "ok")
    => \A i \in DOMAIN last.data :
           /\ "organizerName" \in DOMAIN last.data[i]
           /\ Truthy(last.data[i].organizerName)
           /\ last.data[i].organizerName =
                  ResolvedOrganizerName(last.items[i],
                                        IF last.profile = "ok" THEN GoogleUserProfile.name
                                        ELSE None)

\* C26: for every create request and every current time, the time
\* validation of the Google adapter rejects the request if and only if that
\* of the Microsoft adapter does.
C26_TimeValidationsAgree ==
    last.op = "validate" => (last.validation.google <=> last.validation.microsoft)

\* C26 for requests that do not start in the past.
C26_TimeValidationsAgreeFromNowOn ==
    last.validation.now <= last.req.startTime => C26_TimeValidationsAgree

\* C27: whatever the interleaving of a feed build with updateEvent and
\* deleteEvent calls on the same event, every calendar-sourced item of the
\* feed is the mapping of a state the record was in before or after a
\* complete update, never of a state with the fields of an update in part.
C27_FeedItemsAreWholeRecords ==
    (last.op = "feed" /\ last.outcome = "ok" /\ held # <<>>)
    => \A i \in DOMAIN last.data :
           last.data[i].source = "calendar_event"
           => \E k \in DOMAIN held :
                  /\ held[k].isActive
                  /\ last.data[i] = MapCalendarEvent(last.data[i].id, held[k], NoProfile)

\* C27 witness: the feed shows the event as the Google update has moved it,
\* built from a find() that ran before the Microsoft update wrote the lead
\* it has written since.
C27_Witness ==
    /\ last.op = "feed"
    /\ Len(last.data) = 1
    /\ last.data[1].startTime = 1
    /\ last.data[1].endTime = MaxTime + 1
    /\ last.data[1].leadId = "L1"
    /\ running["updateMicrosoft"].pc = "done"
    /\ calendarEvents[TargetId].leadId = "L2"

\* A record with the fields of an update document set on it.
Merged(doc, update) ==
    [f \in DOMAIN doc |-> IF f \in DOMAIN update THEN update[f] ELSE doc[f]]

\* The records that applying the mirror writes of the requests rs to doc one
\* at a time, in some order, can end in.
RECURSIVE SerialResults(_, _)
SerialResults(doc, rs) ==
    IF rs = {} THEN {doc}
    ELSE UNION {SerialResults(Merged(doc, running[r].update), rs \ {r}) : r \in rs}

\* The update and delete calls in flight that have written to the mirror.
Writers == {r \in Updates \cup {"delete"} : running[r].update # NoUpdate}

C29_ActivityOnlyForKnownLead ==
    (/\ last.op \in {"update", "delete"}
     /\ last.adapter \in CalendarProvider
     /\ last.outcome = "ok"
     /\ last.activityCalls > 0)
    => \/ Truthy(last.req.leadId)
       \/ /\ last.id \in DOMAIN calendarEvents
          /\ Truthy(calendarEvents[last.id].leadId)

\* C29 for the Microsoft adapter and for deleteEvent.
C29_ActivityOnlyForKnownLeadElsewhere ==
    ~(last.op = "update" /\ last.adapter = GOOGLE) => C29_ActivityOnlyForKnownLead

\* C30: a mirror record whose active flag is cleared is not active after
\* any create, update, delete or log-meeting operation, and a feed holds no
\* item for a record that is not active.
C30_InactiveStaysInactive ==
    [][/\ \A id \in DOMAIN calendarEvents :
              (~calendarEvents[id].isActive /\ id \in DOMAIN calendarEvents')
              => ~calendarEvents'[id].isActive
       /\ (last'.op = "feed" /\ last'.outcome = "ok")
              => \A i \in DOMAIN last'.data :
                     last'.data[i].source = "calendar_event"
                     => /\ last'.data[i].id \in DOMAIN calendarEvents'
                        /\ calendarEvents'[last'.data[i].id].isActive]_vars

====
